---- MODULE Spec2Model ----
(***************************************************************************)
(* Verification model of the cuGraph core:                                 *)
(*   - the multi-rank breadth-first traversal (cugraph::mg::bfs),          *)
(*   - the gdf_graph representations and the COO -> CSR conversion,        *)
(*   - vertex renumbering (gdf_renumber_vertices).                         *)
(*   - gdf_pagerank_impl, concurrent entry points, the degree-bucket       *)
(*     worker kernels.                                                     *)
(* Each part has its own specification (SpecBfs, SpecGraph, ...); the      *)
(* variables of the other parts stay at their idle values.                 *)
(***************************************************************************)
EXTENDS Integers, Sequences, FiniteSets, TLC

(***************************************************************************)
(* Bounds of the model.                                                    *)
(***************************************************************************)
NumVertices == 4
NumRanks == 2
MaxEdges == 4

V == 0 .. NumVertices - 1

(***************************************************************************)
(* Generic helpers.                                                        *)
(***************************************************************************)
Range(s) == {s[i] : i \in DOMAIN s}

Min2(a, b) == IF a <= b THEN a ELSE b
Max2(a, b) == IF a >= b THEN a ELSE b

RECURSIVE SetToSortedSeq(_)
SetToSortedSeq(S) ==
  IF S = {} THEN <<>>
  ELSE LET m == CHOOSE x \in S : \A y \in S : x <= y
       IN <<m>> \o SetToSortedSeq(S \ {m})

(***************************************************************************)
(* Part 1: cugraph::mg::bfs and cugraph::mg::detail::bfs_traverse.         *)
(*                                                                         *)
(* One process per rank.  A rank owns the contiguous vertex range          *)
(* [cuts[r], cuts[r+1]) and the out-edges of these vertices.  Ranks only   *)
(* interact through the collectives; a collective call number k of a rank  *)
(* is matched with call number k of every other rank.                      *)
(***************************************************************************)
VARIABLES
  handle,                \* raft::handle_t: comms_initialized() and get_comms().get_size()
  edges,                 \* the directed edges of the graph (global ids)
  cuts,                  \* partition map: rank r owns [cuts[r], cuts[r+1])
  start_vertex,
  pc,                    \* per rank: position in bfs / bfs_traverse
  level,                 \* per rank: bfs_op's level (number of loop rounds)
  visited_bmap,          \* per rank
  input_frontier,        \* per rank: vertex list, input_frontier_len = Len
  output_frontier_bmap,  \* per rank
  output_frontier,       \* per rank: vertices the operator discovered
  pending,               \* per rank: edges the expand kernels still process
  distances,             \* per rank: global-sized array
  predecessors,          \* per rank: global-sized array
  op_log,                \* history: per rank and vertex, the operator's writes
  posts,                 \* per rank: the vectors handed to collect_vectors
  dist_posts,            \* per rank: buffer handed to allreduce(distances)
  pred_posts             \* per rank: buffer handed to allreduce(predecessors)

bfs_vars == <<handle, edges, cuts, start_vertex, pc, level, visited_bmap,
              input_frontier, output_frontier_bmap, output_frontier, pending,
              distances, predecessors, op_log, posts, dist_posts, pred_posts>>

\* The gdf_graph object of part 2.
VARIABLES
  heap,               \* device buffers: sequence of [live, data]
  edgeList,           \* graph->edgeList
  adjList,            \* graph->adjList
  transposedAdjList,  \* graph->transposedAdjList
  gdf_error,          \* what the last call returned
  last_call           \* the last entry point called

graph_vars == <<heap, edgeList, adjList, transposedAdjList, gdf_error, last_call>>

\* One call of gdf_renumber_vertices (part 3).
VARIABLES
  rn_src,          \* the caller's src column
  rn_dst,          \* the caller's dst column
  src_renumbered,  \* output column
  dst_renumbered,  \* output column
  numbering_map,   \* output column
  rn_error,        \* what the call returned
  rn_version       \* which of the repository's two versions was called

renumber_vars == <<rn_src, rn_dst, src_renumbered, dst_renumbered, numbering_map,
                   rn_error, rn_version>>

\* One call of gdf_pagerank_impl (part 4).
VARIABLES
  pr_pc,         \* position of the call: "called", "solving", "solved", "returned"
  pagerank,      \* the caller's pagerank column: which vector its buffer holds
  pagerank_arg,  \* the column as the checks see it: "ok", "null_count", "empty"
  alpha_valid,   \* whether alpha lies in (0, 1)
  tolerance,
  max_iter,
  has_guess,
  residual0,     \* the residual of the initial vector on this graph
  d_pr,          \* the device vector of the iteration
  residual,      \* *residual
  iter,          \* iterations the solver has run
  status,        \* what cugraph::pagerank returned
  pr_allocated,  \* the device buffers the call holds
  pr_error       \* what gdf_pagerank_impl returned

pagerank_vars == <<pr_pc, pagerank, pagerank_arg, alpha_valid, tolerance, max_iter,
                   has_guess, residual0, d_pr, residual, iter, status,
                   pr_allocated, pr_error>>

\* Algorithm invocations of several host threads on the gdf_graph of part 2
\* (part 5).
VARIABLES
  th_alg,            \* per thread: the entry point it called
  th_pc,             \* per thread: the statement it is about to run
  th_result,         \* per thread: what its call returned
  modified_by,       \* history: the threads that wrote to the graph object
  observed_partial,  \* history: the threads that read a representation under construction
  adj_builders,      \* history: the threads that ran the conversion for adjList, in order
  transposed_builders

thread_vars == <<th_alg, th_pc, th_result, modified_by, observed_partial,
                 adj_builders, transposed_builders>>

\* One graph view, its degree buckets and the worker launched on one of them
\* (part 6).
VARIABLES
  csr_offsets,      \* graph.offsets(): offsets[v] is csr_offsets[v + 1]
  bucket_vertices,  \* per bucket: its contiguous vertex-id list
  wk_pc,            \* "binning", "ready" (buckets complete), "launched"
  wk_call,          \* history: the worker that was called, and on which bucket
  kernel,           \* the kernel launch in the stream, or NoKernel
  blocks_pending,   \* blockIdx.x of the thread blocks that have not run yet
  kernel_status,    \* how the kernel ended: "ok", "illegal_address", "diverged"
  op_once,          \* history: the <<source, edge_index>> the operator was applied to
  op_again          \* history: those it was applied to more than once

worker_vars == <<csr_offsets, bucket_vertices, wk_pc, wk_call, kernel, blocks_pending,
                 kernel_status, op_once, op_again>>

\* One run of the coarsening test (part 7).
VARIABLES
  org_edges,                  \* the edges of the graph read from the file
  org_weight_sel,             \* 0: test_weighted is false; 1, 2: which weights the file holds
  h_labels,                   \* the label drawn for every vertex
  coarse_graph,               \* what coarsen_graph returned
  coarse_vertices_to_labels,
  cg_pc,                      \* position in run_current_test
  verdict                     \* how the test ended

coarsen_vars == <<org_edges, org_weight_sel, h_labels, coarse_graph,
                  coarse_vertices_to_labels, cg_pc, verdict>>

\* Algorithm entry points called on the gdf_graph of part 2 (part 8).
VARIABLES
  col_pagerank,   \* the caller's pagerank column: its dtype and what it holds
  degree          \* the caller's degree column and the x it was asked for

algo_vars == <<col_pagerank, degree>>

\* One call of extract_subgraph_vertex (part 9).
VARIABLES
  sg_graph,        \* the input GraphCOO
  sg_vertices,     \* the list `vertices`
  vertex_used_v,
  error_count_v,   \* error_count_v[0]
  sg_count,        \* count
  new_src_v,
  new_dst_v,
  new_weight_v,
  sg_pending,      \* edges the second for_each has not handled yet
  sg_positions,    \* the positions the atomicAdd handed out, in order
  sg_access,       \* the access that left its vector, if any
  sg_result,       \* the GraphCOO `result`
  sg_pc            \* position of the call

subgraph_vars == <<sg_graph, sg_vertices, vertex_used_v, error_count_v, sg_count,
                   new_src_v, new_dst_v, new_weight_v, sg_pending, sg_positions,
                   sg_access, sg_result, sg_pc>>

vars == <<bfs_vars, graph_vars, renumber_vars, pagerank_vars, thread_vars,
          worker_vars, coarsen_vars, algo_vars, subgraph_vars>>

\* What the actions of one part leave alone.
outside_bfs == <<graph_vars, renumber_vars, pagerank_vars, thread_vars, worker_vars,
    coarsen_vars, algo_vars,
    subgraph_vars>>
outside_graph == <<bfs_vars, renumber_vars, pagerank_vars, thread_vars, worker_vars,
    coarsen_vars, algo_vars,
    subgraph_vars>>
outside_renumber == <<bfs_vars, graph_vars, pagerank_vars, thread_vars, worker_vars,
    coarsen_vars, algo_vars,
    subgraph_vars>>
outside_pagerank == <<bfs_vars, graph_vars, renumber_vars, thread_vars, worker_vars,
    coarsen_vars, algo_vars,
    subgraph_vars>>
outside_threads == <<bfs_vars, renumber_vars, pagerank_vars, worker_vars,
    coarsen_vars, algo_vars,
    subgraph_vars>>
outside_algorithms == <<bfs_vars, renumber_vars, pagerank_vars, thread_vars, worker_vars,
    coarsen_vars,
    subgraph_vars>>
outside_subgraph == <<bfs_vars, graph_vars, renumber_vars, pagerank_vars, thread_vars,
    worker_vars, coarsen_vars, algo_vars>>
outside_coarsen == <<bfs_vars, graph_vars, renumber_vars, pagerank_vars, thread_vars,
    worker_vars, algo_vars,
    subgraph_vars>>
outside_workers == <<bfs_vars, graph_vars, renumber_vars, pagerank_vars, thread_vars,
    coarsen_vars, algo_vars,
    subgraph_vars>>

\* The ranks of the communicator of the handle.
Ranks == 0 .. handle.size - 1

\* A handle whose communicator has n ranks.
CommsHandle(n) == [comms_initialized |-> TRUE, size |-> n]

\* cugraph::invalid_idx<vertex_t>::value for a signed vertex_t
invalid_idx == -1

\* std::numeric_limits<vertex_t>::max(), written by fill_max_dist
max_dist == 2147483647

\* The graphs the traversal is run on: subsets of the ring edges u -> u+1
\* (mod NumVertices) and the chords u -> u+2.
CandidateEdges ==
  {<<u, (u + 1) % NumVertices>> : u \in V} \cup
  {<<u, u + 2>> : u \in 0 .. NumVertices - 3}

Graphs == {E \in SUBSET CandidateEdges : Cardinality(E) <= MaxEdges}

Partitions ==
  {c \in [0 .. handle.size -> 0 .. NumVertices] :
     /\ c[0] = 0
     /\ c[handle.size] = NumVertices
     /\ \A r \in Ranks : c[r] <= c[r + 1]}

LocalVertices(r) == {v \in V : cuts[r] <= v /\ v < cuts[r + 1]}

\* create_isolated_bitmap: the vertices without out-edges, gathered globally
isolated_bmap == {v \in V : \A e \in edges : e[1] # v}

\* detail::add_to_bitmap
add_to_bitmap(bmap, frontier) == bmap \cup Range(frontier)

\* detail::preprocess_input_frontier: duplicates, isolated and out of
\* partition vertices are removed
preprocess_input_frontier(r, frontier) ==
  SetToSortedSeq({v \in Range(frontier) :
                    v \in LocalVertices(r) /\ v \notin isolated_bmap})

\* detail::collect_vectors: all-gather (variable length) of call number k
RECURSIVE GatherFrom(_, _)
GatherFrom(k, r) ==
  IF r = handle.size THEN <<>> ELSE posts[r][k] \o GatherFrom(k, r + 1)

collect_vectors(k) == GatherFrom(k, 0)

\* raft allreduce with op_t::MIN over the buffers the ranks handed in
allreduce_MIN(bufs) ==
  [v \in V |->
     CHOOSE m \in {bufs[r][1][v] : r \in Ranks} :
       \A r \in Ranks : m <= bufs[r][1][v]]

AllPosted(bufs) == \A r \in Ranks : bufs[r] # <<>>

BfsInit ==
  /\ handle = CommsHandle(NumRanks)
  /\ edges \in Graphs
  /\ cuts \in Partitions
  /\ start_vertex \in V
  /\ pc = [r \in Ranks |-> "start"]
  /\ level = [r \in Ranks |-> 0]
  /\ visited_bmap = [r \in Ranks |-> {}]
  /\ input_frontier = [r \in Ranks |-> <<start_vertex>>]
  /\ output_frontier_bmap = [r \in Ranks |-> {}]
  /\ output_frontier = [r \in Ranks |-> {}]
  /\ pending = [r \in Ranks |-> {}]
  /\ distances =
       [r \in Ranks |-> [v \in V |-> IF v = start_vertex THEN 0 ELSE max_dist]]
  /\ predecessors = [r \in Ranks |-> [v \in V |-> invalid_idx]]
  /\ op_log = [r \in Ranks |-> [v \in V |-> <<>>]]
  /\ posts = [r \in Ranks |-> <<>>]
  /\ dist_posts = [r \in Ranks |-> <<>>]
  /\ pred_posts = [r \in Ranks |-> <<>>]

BfsIdle ==
  /\ handle = CommsHandle(NumRanks)
  /\ edges = {}
  /\ cuts = [r \in 0 .. NumRanks |-> 0]
  /\ start_vertex = 0
  /\ pc = [r \in Ranks |-> "idle"]
  /\ level = [r \in Ranks |-> 0]
  /\ visited_bmap = [r \in Ranks |-> {}]
  /\ input_frontier = [r \in Ranks |-> <<>>]
  /\ output_frontier_bmap = [r \in Ranks |-> {}]
  /\ output_frontier = [r \in Ranks |-> {}]
  /\ pending = [r \in Ranks |-> {}]
  /\ distances = [r \in Ranks |-> [v \in V |-> 0]]
  /\ predecessors = [r \in Ranks |-> [v \in V |-> 0]]
  /\ op_log = [r \in Ranks |-> [v \in V |-> <<>>]]
  /\ posts = [r \in Ranks |-> <<>>]
  /\ dist_posts = [r \in Ranks |-> <<>>]
  /\ pred_posts = [r \in Ranks |-> <<>>]

\* bfs_traverse line 594 skipped: the input frontier is not marked visited
MarkVisitedSkipped(r, frontier) == visited_bmap[r]

\* bfs_traverse line 594
MarkVisited(r, frontier) == add_to_bitmap(visited_bmap[r], frontier)

\* the length of the rank's own output frontier instead of the gathered one
NextInputLenLocal(r, k) == Len(posts[r][k])

\* a length that is never zero: the loop of bfs_traverse is not left
NextInputLenNeverZero(r, k) == Len(collect_vectors(k)) + 1

\* bfs_traverse lines 629-630: input_frontier_len = collect_vectors(...)
NextInputLen(r, k) == Len(collect_vectors(k))

\* bfs_traverse lines 594-618 on rank r, entered with input frontier
\* `frontier`: mark, increment_level, preprocess, swap, clear the output
\* bitmap and launch the expansion of the local frontier.  With nothing to
\* expand fexp returns at once and the rank calls collect_vectors (line 629)
\* with an empty output frontier.
BeginLevel(r, frontier) ==
  LET filtered == preprocess_input_frontier(r, frontier)
      work == {e \in edges : e[1] \in Range(filtered)}
  IN /\ visited_bmap' = [visited_bmap EXCEPT ![r] = MarkVisited(r, frontier)]
     /\ level' = [level EXCEPT ![r] = @ + 1]
     /\ input_frontier' = [input_frontier EXCEPT ![r] = filtered]
     /\ output_frontier_bmap' = [output_frontier_bmap EXCEPT ![r] = {}]
     /\ output_frontier' = [output_frontier EXCEPT ![r] = {}]
     /\ pending' = [pending EXCEPT ![r] = work]
     /\ IF work = {}
        THEN /\ posts' = [posts EXCEPT ![r] = Append(@, <<>>)]
             /\ pc' = [pc EXCEPT ![r] = "collect"]
        ELSE /\ posts' = posts
             /\ pc' = [pc EXCEPT ![r] = "expand"]

\* bfs_traverse lines 588-590 and the first round of the loop
StartTraverse(r) ==
  /\ pc[r] = "start"
  /\ UNCHANGED outside_bfs
  /\ BeginLevel(r, <<start_vertex>>)
  /\ UNCHANGED <<handle, edges, cuts, start_vertex, distances, predecessors, op_log,
                 dist_posts, pred_posts>>

\* BFSStep::operator()(src, dst), applied by one thread of the expand
\* kernels: atomicOr on the output bitmap; the thread that sets the bit of a
\* vertex not visited earlier records distance and predecessor.  When the
\* last edge is done fexp returns and the rank calls collect_vectors with
\* its output frontier (line 629).
ApplyOp(r) ==
  /\ pc[r] = "expand"
  /\ UNCHANGED outside_bfs
  /\ \E e \in pending[r] :
       LET src == e[1]
           dst == e[2]
           dst_not_visited_earlier == dst \notin visited_bmap[r]
           dst_not_visited_current == dst \notin output_frontier_bmap[r]
           found == dst_not_visited_earlier /\ dst_not_visited_current
           frontier_out == IF found THEN output_frontier[r] \cup {dst}
                           ELSE output_frontier[r]
       IN /\ pending' = [pending EXCEPT ![r] = @ \ {e}]
          /\ output_frontier_bmap' =
               [output_frontier_bmap EXCEPT ![r] = @ \cup {dst}]
          /\ output_frontier' = [output_frontier EXCEPT ![r] = frontier_out]
          /\ IF found
             THEN /\ distances' = [distances EXCEPT ![r][dst] = level[r]]
                  /\ predecessors' = [predecessors EXCEPT ![r][dst] = src]
                  /\ op_log' = [op_log EXCEPT ![r][dst] =
                                  Append(@, [level |-> level[r], src |-> src])]
             ELSE UNCHANGED <<distances, predecessors, op_log>>
          /\ IF pending[r] = {e}
             THEN /\ posts' = [posts EXCEPT ![r] =
                                 Append(@, SetToSortedSeq(frontier_out))]
                  /\ pc' = [pc EXCEPT ![r] = "collect"]
             ELSE UNCHANGED <<posts, pc>>
  /\ UNCHANGED <<handle, edges, cuts, start_vertex, level, visited_bmap,
                 input_frontier, dist_posts, pred_posts>>

\* collect_vectors returns on rank r (every rank has made its call number
\* k) and the loop condition of line 632 is evaluated: the next round is
\* begun, or the loop is left and the rank enters the all-reduce of the
\* distances (bfs lines 676-679).
CollectDone(r) ==
  /\ pc[r] = "collect"
  /\ UNCHANGED outside_bfs
  /\ LET k == Len(posts[r])
     IN /\ \A q \in Ranks : Len(posts[q]) >= k
        /\ IF NextInputLen(r, k) # 0
           THEN /\ BeginLevel(r, collect_vectors(k))
                /\ UNCHANGED dist_posts
           ELSE /\ input_frontier' =
                     [input_frontier EXCEPT ![r] = collect_vectors(k)]
                /\ pc' = [pc EXCEPT ![r] = "allreduce_distances"]
                /\ dist_posts' = [dist_posts EXCEPT ![r] = <<distances[r]>>]
                /\ UNCHANGED <<level, visited_bmap, output_frontier_bmap,
                               output_frontier, pending, posts>>
  /\ UNCHANGED <<handle, edges, cuts, start_vertex, distances, predecessors, op_log,
                 pred_posts>>

\* bfs lines 676-679 return, lines 683-686 are entered
AllreduceDistances(r) ==
  /\ pc[r] = "allreduce_distances"
  /\ UNCHANGED outside_bfs
  /\ AllPosted(dist_posts)
  /\ distances' = [distances EXCEPT ![r] = allreduce_MIN(dist_posts)]
  /\ pred_posts' = [pred_posts EXCEPT ![r] = <<predecessors[r]>>]
  /\ pc' = [pc EXCEPT ![r] = "allreduce_predecessors"]
  /\ UNCHANGED <<handle, edges, cuts, start_vertex, level, visited_bmap, input_frontier,
                 output_frontier_bmap, output_frontier, pending, predecessors,
                 op_log, posts, dist_posts>>

\* bfs lines 683-686 return; bfs returns
AllreducePredecessors(r) ==
  /\ pc[r] = "allreduce_predecessors"
  /\ UNCHANGED outside_bfs
  /\ AllPosted(pred_posts)
  /\ predecessors' = [predecessors EXCEPT ![r] = allreduce_MIN(pred_posts)]
  /\ pc' = [pc EXCEPT ![r] = "done"]
  /\ UNCHANGED <<handle, edges, cuts, start_vertex, level, visited_bmap, input_frontier,
                 output_frontier_bmap, output_frontier, pending, distances,
                 op_log, posts, dist_posts, pred_posts>>

BfsNext ==
  \E r \in Ranks :
    \/ StartTraverse(r)
    \/ ApplyOp(r)
    \/ CollectDone(r)
    \/ AllreduceDistances(r)
    \/ AllreducePredecessors(r)

\* A caller on a single device: its handle either carries a communicator of
\* one rank or no communicator at all (size is then what the caller would
\* expect of it, a single rank).  One rank owns every vertex.
SingleDeviceHandles == {CommsHandle(1), [comms_initialized |-> FALSE, size |-> 1]}

BfsOneRankInit ==
  /\ handle \in SingleDeviceHandles
  /\ edges \in Graphs
  /\ cuts \in Partitions
  /\ start_vertex \in V
  /\ pc = [r \in Ranks |-> "called"]
  /\ level = [r \in Ranks |-> 0]
  /\ visited_bmap = [r \in Ranks |-> {}]
  /\ input_frontier = [r \in Ranks |-> <<start_vertex>>]
  /\ output_frontier_bmap = [r \in Ranks |-> {}]
  /\ output_frontier = [r \in Ranks |-> {}]
  /\ pending = [r \in Ranks |-> {}]
  /\ distances = [r \in Ranks |-> [v \in V |-> 0]]
  /\ predecessors = [r \in Ranks |-> [v \in V |-> 0]]
  /\ op_log = [r \in Ranks |-> [v \in V |-> <<>>]]
  /\ posts = [r \in Ranks |-> <<>>]
  /\ dist_posts = [r \in Ranks |-> <<>>]
  /\ pred_posts = [r \in Ranks |-> <<>>]

\* bfs lines 644-671 on rank r: CUGRAPH_EXPECTS(handle.comms_initialized(),
\* ...) throws cugraph::logic_error on a handle without communicator;
\* otherwise the predecessors are filled with invalid_idx, the distances
\* with the maximum (0 at the start vertex), and bfs_traverse is called.
bfs(r) ==
  /\ pc[r] = "called"
  /\ UNCHANGED outside_bfs
  /\ IF handle.comms_initialized
     THEN /\ predecessors' = [predecessors EXCEPT ![r] = [v \in V |-> invalid_idx]]
          /\ distances' =
               [distances EXCEPT
                  ![r] = [v \in V |-> IF v = start_vertex THEN 0 ELSE max_dist]]
          /\ pc' = [pc EXCEPT ![r] = "start"]
     ELSE /\ pc' = [pc EXCEPT ![r] = "logic_error"]
          /\ UNCHANGED <<distances, predecessors>>
  /\ UNCHANGED <<handle, edges, cuts, start_vertex, level, visited_bmap,
                 input_frontier, output_frontier_bmap, output_frontier, pending,
                 op_log, posts, dist_posts, pred_posts>>

BfsOneRankNext ==
  \E r \in Ranks :
    \/ bfs(r)
    \/ StartTraverse(r)
    \/ ApplyOp(r)
    \/ CollectDone(r)
    \/ AllreduceDistances(r)
    \/ AllreducePredecessors(r)

(***************************************************************************)
(* Properties of the traversal.                                            *)
(***************************************************************************)
\* The vertices a directed path of at most k edges reaches from the start.
RECURSIVE Within(_)
Within(k) ==
  IF k = 0 THEN {start_vertex}
  ELSE LET W == Within(k - 1)
       IN W \cup {e[2] : e \in {f \in edges : f[1] \in W}}

Reachable(v) == v \in Within(NumVertices)

ShortestDist(v) ==
  CHOOSE k \in 0 .. NumVertices :
    v \in Within(k) /\ (k = 0 \/ v \notin Within(k - 1))

\* Following predecessors from v reaches the start vertex in exactly n steps.
RECURSIVE ChainReaches(_, _, _)
ChainReaches(r, v, n) ==
  IF n = 0 THEN v = start_vertex
  ELSE /\ predecessors[r][v] \in V
       /\ ChainReaches(r, predecessors[r][v], n - 1)

Returned(r) == pc[r] = "done"

Exited(r) == pc[r] \in {"allreduce_distances", "allreduce_predecessors", "done"}

\* The distance part of C1 alone: after bfs returns, a vertex has a distance
\* other than the sentinel iff it is reachable, and it is the shortest one.
BfsDistancesCorrect ==
  \A r \in Ranks : Returned(r) =>
    \A v \in V :
      /\ (distances[r][v] # max_dist) <=> Reachable(v)
      /\ Reachable(v) => distances[r][v] = ShortestDist(v)

\* C1: after bfs returns, a vertex v has a non-sentinel distance iff a
\* directed path from the start vertex to v exists, distances[v] is the
\* number of edges of a shortest such path, and following predecessors from
\* v reaches the start vertex in exactly distances[v] steps.
C1_TraversalCorrect ==
  \A r \in Ranks : Returned(r) =>
    \A v \in V :
      /\ (distances[r][v] # max_dist) <=> Reachable(v)
      /\ Reachable(v) =>
           /\ distances[r][v] = ShortestDist(v)
           /\ ChainReaches(r, v, distances[r][v])

\* C2: after bfs returns all ranks hold the same predecessor array; the
\* start vertex and the unreached vertices keep the sentinel, every other
\* reached vertex v holds a vertex u with an edge u -> v and
\* distances[u] + 1 = distances[v]; the final MIN all-reduce never replaces
\* a discovered predecessor by the sentinel.
C2_PredecessorsAfterReduce ==
  (\A r \in Ranks : Returned(r)) =>
    /\ \A r1, r2 \in Ranks : predecessors[r1] = predecessors[r2]
    /\ \A r \in Ranks : \A v \in V :
         /\ (v = start_vertex \/ ~Reachable(v)) =>
              predecessors[r][v] = invalid_idx
         /\ (v # start_vertex /\ Reachable(v)) =>
              /\ predecessors[r][v] \in V
              /\ <<predecessors[r][v], v>> \in edges
              /\ distances[r][predecessors[r][v]] + 1 = distances[r][v]
         /\ pred_posts[r][1][v] # invalid_idx =>
              predecessors[r][v] # invalid_idx

\* C3: all ranks run the same number of levels and make the same sequence of
\* collective calls, one collect_vectors per level: no rank is in a level
\* beyond the one at which another rank left the loop, a rank leaves the
\* loop exactly when the frontier gathered from all ranks is empty, and goes
\* on to the next level exactly when it is not.
C3_SameCollectiveSequence ==
  /\ \A r \in Ranks :
       /\ pc[r] = "start" => Len(posts[r]) = 0 /\ level[r] = 0
       /\ pc[r] = "expand" => Len(posts[r]) = level[r] - 1
       /\ (pc[r] = "collect" \/ Exited(r)) => Len(posts[r]) = level[r]
  /\ \A r1, r2 \in Ranks :
       Exited(r1) => /\ level[r2] <= level[r1]
                     /\ Exited(r2) => level[r2] = level[r1]
  /\ \A r \in Ranks :
       /\ Exited(r) =>
            \A q \in Ranks : /\ Len(posts[q]) >= level[r]
                             /\ posts[q][level[r]] = <<>>
       /\ \A k \in 1 .. level[r] - 1 :
            /\ \A q \in Ranks : Len(posts[q]) >= k
            /\ \E q \in Ranks : posts[q][k] # <<>>

\* C3 witness: the traversal has returned on a rank that went through three
\* levels although its own output frontier was empty at the first one.
C3_Witness ==
  \E r \in Ranks :
    /\ Returned(r)
    /\ level[r] >= 3
    /\ posts[r][1] = <<>>

\* C4: during a traversal the operator's effect (distance = level,
\* predecessor = discovering vertex) is recorded at most once per vertex and
\* rank and exactly once for each vertex newly discovered in the level;
\* a vertex marked visited at an earlier level (the start vertex too) is not
\* written again.
C4_EffectRecordedOnce ==
  \A r \in Ranks : \A v \in V :
    /\ Len(op_log[r][v]) <= 1
    /\ op_log[r][start_vertex] = <<>>
    /\ v \in visited_bmap[r] =>
         \A i \in DOMAIN op_log[r][v] : op_log[r][v][i].level < level[r]
    /\ v \in output_frontier[r] =>
         /\ Len(op_log[r][v]) = 1
         /\ op_log[r][v][1].level = level[r]
    /\ (Len(op_log[r][v]) >= 1 /\ pc[r] \in {"expand", "collect"}) =>
         /\ distances[r][v] = op_log[r][v][1].level
         /\ predecessors[r][v] = op_log[r][v][1].src
         /\ <<op_log[r][v][1].src, v>> \in edges

\* C4 witness: two frontier vertices of one rank reached the same unvisited
\* vertex in one level, both edges are processed, one write is recorded, and
\* it is the write of the larger of the two vertices.
C4_Witness ==
  \E r \in Ranks : \E v \in V : \E u1, u2 \in V :
    /\ u1 < u2
    /\ {u1, u2} \subseteq Range(input_frontier[r])
    /\ {<<u1, v>>, <<u2, v>>} \subseteq edges
    /\ pc[r] = "collect"
    /\ Len(op_log[r][v]) = 1
    /\ op_log[r][v][1] = [level |-> level[r], src |-> u2]

\* What a traversal of the whole graph on one device returns: hop counts of
\* shortest paths (the maximum for unreached vertices) and, for every reached
\* vertex but the start, a predecessor one hop closer to the start.
SingleDeviceResult(dist, pred) ==
  \A v \in V :
    /\ dist[v] = IF Reachable(v) THEN ShortestDist(v) ELSE max_dist
    /\ (v = start_vertex \/ ~Reachable(v)) => pred[v] = invalid_idx
    /\ (v # start_vertex /\ Reachable(v)) =>
         /\ <<pred[v], v>> \in edges
         /\ dist[pred[v]] + 1 = dist[v]

\* C21: mg::bfs called by a single device (rank count 1) is not rejected,
\* runs the same steps as with several ranks, the collectives handing back
\* what the rank put in, and returns the distances and predecessors of a
\* single-device traversal of the graph.
C21_SingleDeviceNotRejected ==
  \A r \in Ranks :
    /\ pc[r] # "logic_error"
    /\ Returned(r) => SingleDeviceResult(distances[r], predecessors[r])
    /\ \A k \in DOMAIN posts[r] : collect_vectors(k) = posts[r][k]

\* The same for the callers whose handle carries a communicator of one rank.
C21_OneRankCommunicator ==
  handle.comms_initialized =>
    \A r \in Ranks :
      /\ pc[r] # "logic_error"
      /\ Returned(r) => SingleDeviceResult(distances[r], predecessors[r])
      /\ \A k \in DOMAIN posts[r] : collect_vectors(k) = posts[r][k]
      /\ pc[r] = "allreduce_predecessors" =>
           allreduce_MIN(dist_posts) = dist_posts[r][1]

\* A one-rank communicator's traversal that returned after three levels.
C21_WitnessOneRank ==
  /\ handle = CommsHandle(1)
  /\ Returned(0)
  /\ level[0] >= 3

\* The call of a device without communicator has been made.
C21_WitnessNoComms ==
  /\ ~handle.comms_initialized
  /\ pc[0] # "called"

\* What rank r does next.
RankStep(r) ==
  \/ StartTraverse(r)
  \/ ApplyOp(r)
  \/ CollectDone(r)
  \/ AllreduceDistances(r)
  \/ AllreducePredecessors(r)

\* Every rank that can take a step eventually takes one.
FairRanks == \A r \in 0 .. NumRanks - 1 : WF_vars(RankStep(r))

AllExited == \A r \in Ranks : Exited(r)

LevelsBounded == \A r \in Ranks : level[r] <= NumVertices

\* A rank that begins a further level has marked a vertex more as visited.
VisitedGrows ==
  \A r \in Ranks :
    (level'[r] > level[r] /\ level[r] >= 1) =>
      (visited_bmap[r] \subseteq visited_bmap'[r] /\ visited_bmap[r] # visited_bmap'[r])

\* C24: with every rank scheduled fairly, bfs_traverse ends on every rank,
\* for every graph, partition and start vertex: the visited set grows
\* strictly at every level that is followed by another level, so no rank
\* runs more than number_of_vertices levels.
C24_TraversalTerminates ==
  /\ <>[]AllExited
  /\ []LevelsBounded
  /\ [][VisitedGrows]_vars

\* All ranks have left the loop after as many levels as there are vertices.
C24_Witness ==
  /\ AllExited
  /\ \A r \in Ranks : level[r] = NumVertices

(***************************************************************************)
(* Part 2: the gdf_graph object (src/cpp/src/cugraph.cu).                  *)
(*                                                                         *)
(* A gdf_column is a descriptor (data pointer, size, dtype, null_count).   *)
(* Device buffers live in `heap`; a data pointer is an index into it, so   *)
(* two columns may share one buffer.  A representation that is not         *)
(* attached (a nullptr member of gdf_graph) is NullRep; a nullptr column   *)
(* pointer is NullCol.                                                     *)
(***************************************************************************)
\* Bounds of the edge lists handed to gdf_edge_list_view.
MaxNnz == 3
\* The vertex ids the callers' edge lists use.
VertexIds == 0 .. 2

\* The add functions are not called once the device holds this many buffers.
MaxBuffers == 10

NullRep == [present |-> FALSE]
NullCol == [data |-> 0, size |-> 0, dtype |-> "nullptr", null_count |-> 0]

IsNull(rep) == ~rep.present
IsNullCol(col) == col.dtype = "nullptr"

\* gdf_column_view(col, data, valid, size, dtype); null_count becomes 0
gdf_column_view(data, size, dtype) ==
  [data |-> data, size |-> size, dtype |-> dtype, null_count |-> 0]

\* cpy_column_view: the descriptor is copied, the buffer is shared
cpy_column_view(in) == gdf_column_view(in.data, in.size, in.dtype)

\* The first `size` elements of the buffer a column points to.
ColumnValues(h, col) ==
  LET buf == h[col.data].data
  IN SubSeq(buf, 1, IF col.size <= Len(buf) THEN col.size ELSE Len(buf))

Buffer(data) == [live |-> TRUE, data |-> data]

RECURSIVE SeqMax(_)
SeqMax(s) ==
  IF Len(s) = 0 THEN -1
  ELSE LET m == SeqMax(Tail(s)) IN IF Head(s) >= m THEN Head(s) ELSE m

\* The input positions whose key is v, in input order.
RECURSIVE PositionsOf(_, _, _)
PositionsOf(keys, v, i) ==
  IF i > Len(keys) THEN <<>>
  ELSE (IF keys[i] = v THEN <<i>> ELSE <<>>) \o PositionsOf(keys, v, i + 1)

\* Stable counting sort: the input positions ordered by key.
RECURSIVE StableOrder(_, _, _)
StableOrder(keys, v, size) ==
  IF v >= size THEN <<>>
  ELSE PositionsOf(keys, v, 1) \o StableOrder(keys, v + 1, size)

\* ConvertCOOtoCSR / ConvertCOOtoCSR_weighted (COOtoCSR.cuh): the vertex
\* count is the largest id plus one, rowOffsets is the prefix sum of the
\* per-key counts, colIndices (edgeWeights) the values in key order.
ConvertCOOtoCSR(keys, vals, wgts, nnz) ==
  LET k == SubSeq(keys, 1, nnz)
      size == Max2(SeqMax(k), SeqMax(SubSeq(vals, 1, nnz))) + 1
      order == StableOrder(k, 0, size)
  IN [size |-> size,
      nnz |-> nnz,
      rowOffsets |-> [i \in 1 .. size + 1 |->
                        Cardinality({p \in 1 .. nnz : k[p] < i - 1})],
      colIndices |-> [i \in 1 .. nnz |-> vals[order[i]]],
      edgeWeights |-> [i \in 1 .. nnz |->
                         IF order[i] <= Len(wgts) THEN wgts[order[i]] ELSE 0]]

\* cugraph::offsets_to_indices: the source vertex of every edge position
offsets_to_indices(offsets, v, nnz) ==
  [i \in 1 .. nnz |->
     CHOOSE u \in 0 .. v - 1 : offsets[u + 1] < i /\ i <= offsets[u + 2]]

\* A column as the caller holds it: the values of its buffer and the
\* descriptor fields.
UserCol(values, dtype, null_count) ==
  [values |-> values, size |-> Len(values), dtype |-> dtype,
   null_count |-> null_count]
NullUserCol == [values |-> <<>>, size |-> 0, dtype |-> "nullptr", null_count |-> 0]

IdSeqs(n) == [1 .. n -> VertexIds]
\* Pairwise distinct weights, so that a weight identifies its edge.
DistinctWeights(n) == [i \in 1 .. n |-> 10 + i]
WeightCol(n, dtype) ==
  IF dtype = "nullptr" THEN NullUserCol ELSE UserCol(DistinctWeights(n), dtype, 0)

WellFormedEdgeLists ==
  UNION {{[src |-> UserCol(s, "GDF_INT32", 0), dst |-> UserCol(d, "GDF_INT32", 0),
           edge_data |-> WeightCol(n, wd)] :
            s \in IdSeqs(n), d \in IdSeqs(n),
            wd \in {"nullptr", "GDF_FLOAT32"}} : n \in 1 .. MaxNnz}

\* Columns that violate one of the preconditions each, 64-bit ids, and
\* weights of other types.
OtherEdgeLists ==
  {[src |-> UserCol(<<0, 1>>, "GDF_INT32", 0), dst |-> UserCol(<<1>>, "GDF_INT32", 0),
    edge_data |-> NullUserCol],
   [src |-> UserCol(<<0, 1>>, "GDF_INT32", 0), dst |-> UserCol(<<1, 2>>, "GDF_INT64", 0),
    edge_data |-> NullUserCol],
   [src |-> UserCol(<<0, 1>>, "GDF_FLOAT32", 0), dst |-> UserCol(<<1, 2>>, "GDF_FLOAT32", 0),
    edge_data |-> NullUserCol],
   [src |-> UserCol(<<>>, "GDF_INT32", 0), dst |-> UserCol(<<>>, "GDF_INT32", 0),
    edge_data |-> NullUserCol],
   [src |-> UserCol(<<0, 1>>, "GDF_INT32", 1), dst |-> UserCol(<<1, 2>>, "GDF_INT32", 0),
    edge_data |-> NullUserCol],
   [src |-> UserCol(<<0, 1>>, "GDF_INT32", 0), dst |-> UserCol(<<1, 2>>, "GDF_INT32", 1),
    edge_data |-> NullUserCol],
   [src |-> UserCol(<<0, 1>>, "GDF_INT64", 0), dst |-> UserCol(<<1, 2>>, "GDF_INT64", 0),
    edge_data |-> NullUserCol],
   [src |-> UserCol(<<0, 1>>, "GDF_INT32", 0), dst |-> UserCol(<<1, 2>>, "GDF_INT32", 0),
    edge_data |-> UserCol(<<11>>, "GDF_FLOAT32", 0)],
   [src |-> UserCol(<<0, 1>>, "GDF_INT32", 0), dst |-> UserCol(<<1, 2>>, "GDF_INT32", 0),
    edge_data |-> UserCol(<<11, 12>>, "GDF_INT32", 0)],
   [src |-> UserCol(<<1, 0>>, "GDF_INT32", 0), dst |-> UserCol(<<2, 2>>, "GDF_INT32", 0),
    edge_data |-> UserCol(<<11, 12>>, "GDF_FLOAT64", 0)]}

EdgeListInputs == WellFormedEdgeLists \cup OtherEdgeLists

GraphInit ==
  /\ heap = <<>>
  /\ edgeList = NullRep
  /\ adjList = NullRep
  /\ transposedAdjList = NullRep
  /\ gdf_error = "GDF_SUCCESS"
  /\ last_call = "none"

\* The graph part at rest, for the specifications of the other parts.
GraphIdle == GraphInit

Return(fn, err) == gdf_error' = err /\ last_call' = fn

\* A null pointer was dereferenced or an integer divided by zero: the
\* process has ended and makes no further call.
ProcessEnded == gdf_error \in {"NULL_DEREFERENCE", "DIVISION_BY_ZERO"}

\* Some representation is attached to the graph.
HoldsRepresentation ==
  ~(IsNull(edgeList) /\ IsNull(adjList) /\ IsNull(transposedAdjList))

\* gdf_edge_list_view (cugraph.cu 209-239): the representation is attached
\* at lines 222-228, before the size of edge_data is checked at line 230;
\* a gdf_edge_list starts with edge_data = nullptr.
gdf_edge_list_view ==
  LET fn == "gdf_edge_list_view" IN
  \/ /\ ~ProcessEnded
     /\ UNCHANGED outside_graph
     /\ ~(IsNull(edgeList) /\ IsNull(adjList) /\ IsNull(transposedAdjList))
     /\ Return(fn, "GDF_INVALID_API_CALL")
     /\ UNCHANGED <<heap, edgeList, adjList, transposedAdjList>>
  \/ /\ ~ProcessEnded
     /\ UNCHANGED outside_graph
     /\ IsNull(edgeList) /\ IsNull(adjList) /\ IsNull(transposedAdjList)
     /\ \E in \in EdgeListInputs :
          LET base == Len(heap)
              attached == [present |-> TRUE,
                           src_indices |-> gdf_column_view(base + 1, in.src.size,
                                                           in.src.dtype),
                           dest_indices |-> gdf_column_view(base + 2, in.dst.size,
                                                            in.dst.dtype),
                           edge_data |-> NullCol,
                           ownership |-> 0]
              columns == <<Buffer(in.src.values), Buffer(in.dst.values)>>
          IN IF in.src.size # in.dst.size
             THEN Return(fn, "GDF_COLUMN_SIZE_MISMATCH")
                  /\ UNCHANGED <<heap, edgeList, adjList, transposedAdjList>>
             ELSE IF in.src.dtype # in.dst.dtype
                     \/ in.src.dtype \notin {"GDF_INT32", "GDF_INT64"}
             THEN Return(fn, "GDF_UNSUPPORTED_DTYPE")
                  /\ UNCHANGED <<heap, edgeList, adjList, transposedAdjList>>
             ELSE IF ~(in.src.size > 0)
             THEN Return(fn, "GDF_DATASET_EMPTY")
                  /\ UNCHANGED <<heap, edgeList, adjList, transposedAdjList>>
             ELSE IF in.src.null_count # 0 \/ in.dst.null_count # 0
             THEN Return(fn, "GDF_VALIDITY_UNSUPPORTED")
                  /\ UNCHANGED <<heap, edgeList, adjList, transposedAdjList>>
             ELSE IF IsNullCol(in.edge_data)
             THEN Return(fn, "GDF_SUCCESS")
                  /\ heap' = heap \o columns
                  /\ edgeList' = attached
                  /\ UNCHANGED <<adjList, transposedAdjList>>
             ELSE IF in.src.size # in.edge_data.size
             THEN Return(fn, "GDF_COLUMN_SIZE_MISMATCH")
                  /\ heap' = heap \o columns
                  /\ edgeList' = attached
                  /\ UNCHANGED <<adjList, transposedAdjList>>
             ELSE Return(fn, "GDF_SUCCESS")
                  /\ heap' = heap \o columns \o <<Buffer(in.edge_data.values)>>
                  /\ edgeList' =
                       [attached EXCEPT !.edge_data =
                          gdf_column_view(base + 3, in.edge_data.size,
                                          in.edge_data.dtype)]
                  /\ UNCHANGED <<adjList, transposedAdjList>>

\* Well-formed CSR inputs of gdf_adj_list_view, one per well-formed edge list.
WellFormedAdjLists ==
  {LET csr == ConvertCOOtoCSR(e.src.values, e.dst.values, e.edge_data.values,
                              e.src.size)
   IN [offsets |-> UserCol(csr.rowOffsets, "GDF_INT32", 0),
       indices |-> UserCol(csr.colIndices, "GDF_INT32", 0),
       edge_data |-> IF e.edge_data.dtype = "nullptr" THEN NullUserCol
                     ELSE UserCol(csr.edgeWeights, e.edge_data.dtype, 0)] :
     e \in WellFormedEdgeLists}

\* One vertex and no edge: offsets [0, 0] and an indices column of size 0.
ZeroEdgeAdjList ==
  [offsets |-> UserCol(<<0, 0>>, "GDF_INT32", 0),
   indices |-> UserCol(<<>>, "GDF_INT32", 0), edge_data |-> NullUserCol]

\* A CSR with 64-bit offsets and indices.
WideAdjList ==
  [offsets |-> UserCol(<<0, 1, 2>>, "GDF_INT64", 0),
   indices |-> UserCol(<<1, 0>>, "GDF_INT64", 0), edge_data |-> NullUserCol]

OtherAdjLists ==
  {[offsets |-> UserCol(<<0, 1, 2>>, "GDF_INT32", 1),
    indices |-> UserCol(<<1, 0>>, "GDF_INT32", 0), edge_data |-> NullUserCol],
   [offsets |-> UserCol(<<0, 1, 2>>, "GDF_INT32", 0),
    indices |-> UserCol(<<1, 0>>, "GDF_INT32", 1), edge_data |-> NullUserCol],
   [offsets |-> UserCol(<<0, 1, 2>>, "GDF_INT32", 0),
    indices |-> UserCol(<<1, 0>>, "GDF_INT64", 0), edge_data |-> NullUserCol],
   [offsets |-> UserCol(<<0, 1, 2>>, "GDF_FLOAT32", 0),
    indices |-> UserCol(<<1, 0>>, "GDF_FLOAT32", 0), edge_data |-> NullUserCol],
   [offsets |-> UserCol(<<>>, "GDF_INT32", 0),
    indices |-> UserCol(<<>>, "GDF_INT32", 0), edge_data |-> NullUserCol],
   [offsets |-> UserCol(<<0, 1, 2>>, "GDF_INT32", 0),
    indices |-> UserCol(<<1, 0>>, "GDF_INT32", 0),
    edge_data |-> UserCol(<<11>>, "GDF_FLOAT32", 0)],
   ZeroEdgeAdjList,
   WideAdjList}

AdjListInputs == WellFormedAdjLists \cup OtherAdjLists

\* gdf_adj_list_view (cugraph.cu 67-95)
gdf_adj_list_view ==
  LET fn == "gdf_adj_list_view" IN
  \/ /\ ~ProcessEnded
     /\ UNCHANGED outside_graph
     /\ ~(IsNull(edgeList) /\ IsNull(adjList) /\ IsNull(transposedAdjList))
     /\ Return(fn, "GDF_INVALID_API_CALL")
     /\ UNCHANGED <<heap, edgeList, adjList, transposedAdjList>>
  \/ /\ ~ProcessEnded
     /\ UNCHANGED outside_graph
     /\ IsNull(edgeList) /\ IsNull(adjList) /\ IsNull(transposedAdjList)
     /\ \E in \in AdjListInputs :
          LET base == Len(heap)
              attached == [present |-> TRUE,
                           offsets |-> gdf_column_view(base + 1, in.offsets.size,
                                                       in.offsets.dtype),
                           indices |-> gdf_column_view(base + 2, in.indices.size,
                                                       in.indices.dtype),
                           edge_data |-> NullCol,
                           ownership |-> 0]
              columns == <<Buffer(in.offsets.values), Buffer(in.indices.values)>>
          IN IF in.offsets.null_count # 0 \/ in.indices.null_count # 0
             THEN Return(fn, "GDF_VALIDITY_UNSUPPORTED")
                  /\ UNCHANGED <<heap, edgeList, adjList, transposedAdjList>>
             ELSE IF in.offsets.dtype # in.indices.dtype
                     \/ in.offsets.dtype \notin {"GDF_INT32", "GDF_INT64"}
             THEN Return(fn, "GDF_UNSUPPORTED_DTYPE")
                  /\ UNCHANGED <<heap, edgeList, adjList, transposedAdjList>>
             ELSE IF ~(in.offsets.size > 0)
             THEN Return(fn, "GDF_DATASET_EMPTY")
                  /\ UNCHANGED <<heap, edgeList, adjList, transposedAdjList>>
             ELSE IF IsNullCol(in.edge_data)
             THEN Return(fn, "GDF_SUCCESS")
                  /\ heap' = heap \o columns
                  /\ adjList' = attached
                  /\ UNCHANGED <<edgeList, transposedAdjList>>
             ELSE IF in.indices.size # in.edge_data.size
             THEN Return(fn, "GDF_COLUMN_SIZE_MISMATCH")
                  /\ heap' = heap \o columns
                  /\ adjList' = attached
                  /\ UNCHANGED <<edgeList, transposedAdjList>>
             ELSE Return(fn, "GDF_SUCCESS")
                  /\ heap' = heap \o columns \o <<Buffer(in.edge_data.values)>>
                  /\ adjList' =
                       [attached EXCEPT !.edge_data =
                          gdf_column_view(base + 3, in.edge_data.size,
                                          in.edge_data.dtype)]
                  /\ UNCHANGED <<edgeList, transposedAdjList>>

\* The size given to the offsets column (cugraph.cu 258, 268, 324, 335).
OffsetsSizeShort(adj_list) == adj_list.size
OffsetsSize(adj_list) == adj_list.size + 1

\* The columns of a new adjacency list over the converter's result
\* (cugraph.cu 246-271, 314-338): ownership 1, dtype of src_indices.
NewAdjList(h, adj_list, el) ==
  LET base == Len(h)
      weighted == ~IsNullCol(el.edge_data)
  IN [heap |-> h \o <<Buffer(adj_list.rowOffsets), Buffer(adj_list.colIndices)>>
                 \o (IF weighted THEN <<Buffer(adj_list.edgeWeights)>> ELSE <<>>),
      rep |-> [present |-> TRUE,
               offsets |-> gdf_column_view(base + 1, OffsetsSize(adj_list),
                                           el.src_indices.dtype),
               indices |-> gdf_column_view(base + 2, adj_list.nnz,
                                           el.src_indices.dtype),
               edge_data |-> IF weighted
                             THEN gdf_column_view(base + 3, adj_list.nnz,
                                                  el.edge_data.dtype)
                             ELSE NullCol,
               ownership |-> 1]]

EdgeWeights(h, el) ==
  IF IsNullCol(el.edge_data) THEN <<>> ELSE ColumnValues(h, el.edge_data)

\* The conversion of the transposed list called with src as the key.
gdf_add_transposed_adj_list_impl_unswapped(h, el) ==
  NewAdjList(h,
             ConvertCOOtoCSR(ColumnValues(h, el.src_indices),
                             ColumnValues(h, el.dest_indices),
                             EdgeWeights(h, el), el.src_indices.size),
             el)

\* gdf_add_transposed_adj_list_impl (cugraph.cu 309-345): dest is the key
gdf_add_transposed_adj_list_impl(h, el) ==
  NewAdjList(h,
             ConvertCOOtoCSR(ColumnValues(h, el.dest_indices),
                             ColumnValues(h, el.src_indices),
                             EdgeWeights(h, el), el.src_indices.size),
             el)

\* The conversion called with the key and value columns exchanged.
gdf_add_adj_list_impl_swapped(h, el) ==
  NewAdjList(h,
             ConvertCOOtoCSR(ColumnValues(h, el.dest_indices),
                             ColumnValues(h, el.src_indices),
                             EdgeWeights(h, el), el.src_indices.size),
             el)

\* gdf_add_adj_list_impl (cugraph.cu 241-278): src is the key
gdf_add_adj_list_impl(h, el) ==
  NewAdjList(h,
             ConvertCOOtoCSR(ColumnValues(h, el.src_indices),
                             ColumnValues(h, el.dest_indices),
                             EdgeWeights(h, el), el.src_indices.size),
             el)

\* gdf_add_adj_list (cugraph.cu 416-433)
gdf_add_adj_list ==
  /\ ~ProcessEnded
  /\ Len(heap) < MaxBuffers
  /\ UNCHANGED outside_graph
  /\ LET fn == "gdf_add_adj_list" IN
       IF ~IsNull(adjList)
       THEN Return(fn, "GDF_SUCCESS")
            /\ UNCHANGED <<heap, edgeList, adjList, transposedAdjList>>
       ELSE IF IsNull(edgeList)
       THEN Return(fn, "GDF_INVALID_API_CALL")
            /\ UNCHANGED <<heap, edgeList, adjList, transposedAdjList>>
       ELSE IF edgeList.src_indices.dtype # "GDF_INT32"
               \/ (~IsNullCol(edgeList.edge_data)
                   /\ edgeList.edge_data.dtype \notin {"GDF_FLOAT32", "GDF_FLOAT64"})
       THEN Return(fn, "GDF_UNSUPPORTED_DTYPE")
            /\ UNCHANGED <<heap, edgeList, adjList, transposedAdjList>>
       ELSE LET built == gdf_add_adj_list_impl(heap, edgeList)
            IN /\ Return(fn, "GDF_SUCCESS")
               /\ heap' = built.heap
               /\ adjList' = built.rep
               /\ UNCHANGED <<edgeList, transposedAdjList>>

\* The body of gdf_add_edge_list (cugraph.cu 280-306) on heap h: the source
\* column is new, dest_indices and edge_data share the adjacency list's
\* buffers.
AddEdgeList(h, el, al) ==
  IF ~IsNull(el) THEN [err |-> "GDF_SUCCESS", heap |-> h, edgeList |-> el]
  ELSE IF IsNull(al) THEN [err |-> "GDF_INVALID_API_CALL", heap |-> h, edgeList |-> el]
  ELSE LET d_src == offsets_to_indices(ColumnValues(h, al.offsets),
                                       al.offsets.size - 1, al.indices.size)
       IN [err |-> "GDF_SUCCESS",
           heap |-> h \o <<Buffer(d_src)>>,
           edgeList |-> [present |-> TRUE,
                         src_indices |-> gdf_column_view(Len(h) + 1, al.indices.size,
                                                         al.indices.dtype),
                         dest_indices |-> cpy_column_view(al.indices),
                         edge_data |-> IF IsNullCol(al.edge_data) THEN NullCol
                                       ELSE cpy_column_view(al.edge_data),
                         ownership |-> 2]]

gdf_add_edge_list ==
  /\ ~ProcessEnded
  /\ Len(heap) < MaxBuffers
  /\ UNCHANGED outside_graph
  /\ LET r == AddEdgeList(heap, edgeList, adjList)
       IN /\ Return("gdf_add_edge_list", r.err)
          /\ heap' = r.heap
          /\ edgeList' = r.edgeList
          /\ UNCHANGED <<adjList, transposedAdjList>>

\* The body of gdf_add_transposed_adj_list (cugraph.cu 435-452) and of
\* gdf_add_transpose (part_005 438-458).  Line 439 (446) reads
\* graph->edgeList without a check: with no edge list and no adjacency list
\* the call dereferences a null pointer and the process ends.
AddTransposedAdjList(h, edge_list, adj_list, transposed) ==
  LET r == AddEdgeList(h, edge_list, adj_list)
      el == r.edgeList
      kept == [heap |-> r.heap, edgeList |-> el, transposedAdjList |-> transposed]
  IN IF IsNull(el)
     THEN [err |-> "NULL_DEREFERENCE", heap |-> h, edgeList |-> edge_list,
           transposedAdjList |-> transposed]
     ELSE IF el.src_indices.dtype # "GDF_INT32" \/ el.dest_indices.dtype # "GDF_INT32"
             \/ (~IsNullCol(el.edge_data)
                 /\ el.edge_data.dtype \notin {"GDF_FLOAT32", "GDF_FLOAT64"})
     THEN [err |-> "GDF_UNSUPPORTED_DTYPE"] @@ kept
     ELSE IF ~IsNull(transposed)
     THEN [err |-> "GDF_SUCCESS"] @@ kept
     ELSE LET built == gdf_add_transposed_adj_list_impl(r.heap, el)
          IN [err |-> "GDF_SUCCESS", heap |-> built.heap, edgeList |-> el,
              transposedAdjList |-> built.rep]

\* gdf_add_transposed_adj_list (cugraph.cu 435-452)
gdf_add_transposed_adj_list ==
  /\ ~ProcessEnded
  /\ Len(heap) < MaxBuffers
  /\ UNCHANGED outside_graph
  /\ LET r == AddTransposedAdjList(heap, edgeList, adjList, transposedAdjList)
     IN /\ Return("gdf_add_transposed_adj_list", r.err)
        /\ heap' = r.heap
        /\ edgeList' = r.edgeList
        /\ transposedAdjList' = r.transposedAdjList
        /\ UNCHANGED adjList

(***************************************************************************)
(* The entry points as src/unnamed/part_005 has them: the two views check  *)
(* their columns first and then only their own representation.             *)
(***************************************************************************)
\* Edge lists of one edge.
SingleEdgeLists ==
  {[src |-> UserCol(<<s>>, "GDF_INT32", 0), dst |-> UserCol(<<d>>, "GDF_INT32", 0),
    edge_data |-> WeightCol(1, wd)] :
     s \in VertexIds, d \in VertexIds, wd \in {"nullptr", "GDF_FLOAT32"}}

Part005EdgeListInputs == SingleEdgeLists \cup OtherEdgeLists

SingleEdgeAdjLists ==
  {LET csr == ConvertCOOtoCSR(e.src.values, e.dst.values, e.edge_data.values,
                              e.src.size)
   IN [offsets |-> UserCol(csr.rowOffsets, "GDF_INT32", 0),
       indices |-> UserCol(csr.colIndices, "GDF_INT32", 0),
       edge_data |-> IF e.edge_data.dtype = "nullptr" THEN NullUserCol
                     ELSE UserCol(csr.edgeWeights, e.edge_data.dtype, 0)] :
     e \in SingleEdgeLists}

Part005AdjListInputs == SingleEdgeAdjLists \cup OtherAdjLists

\* The column checks of gdf_edge_list_view (part_005 212-217)
EdgeListColumnChecks(in) ==
  IF in.src.size # in.dst.size THEN "GDF_COLUMN_SIZE_MISMATCH"
  ELSE IF in.src.dtype # in.dst.dtype
          \/ in.src.dtype \notin {"GDF_INT32", "GDF_INT64"}
  THEN "GDF_UNSUPPORTED_DTYPE"
  ELSE IF ~(in.src.size > 0) THEN "GDF_DATASET_EMPTY"
  ELSE IF in.src.null_count # 0 \/ in.dst.null_count # 0
  THEN "GDF_VALIDITY_UNSUPPORTED"
  ELSE "GDF_SUCCESS"

\* gdf_edge_list_view from the new gdf_edge_list on (part_005 220-236)
ViewedEdgeList(h, in) ==
  LET base == Len(h)
      attached == [present |-> TRUE,
                   src_indices |-> gdf_column_view(base + 1, in.src.size, in.src.dtype),
                   dest_indices |-> gdf_column_view(base + 2, in.dst.size, in.dst.dtype),
                   edge_data |-> NullCol,
                   ownership |-> 0]
      columns == <<Buffer(in.src.values), Buffer(in.dst.values)>>
  IN IF IsNullCol(in.edge_data)
     THEN [err |-> "GDF_SUCCESS", heap |-> h \o columns, rep |-> attached]
     ELSE IF in.src.size # in.edge_data.size
     THEN [err |-> "GDF_COLUMN_SIZE_MISMATCH", heap |-> h \o columns, rep |-> attached]
     ELSE [err |-> "GDF_SUCCESS",
           heap |-> h \o columns \o <<Buffer(in.edge_data.values)>>,
           rep |-> [attached EXCEPT !.edge_data =
                      gdf_column_view(base + 3, in.edge_data.size, in.edge_data.dtype)]]

\* gdf_edge_list_view (part_005 210-239)
gdf_edge_list_view_part_005 ==
  /\ ~ProcessEnded
  /\ UNCHANGED outside_graph
  /\ \E in \in Part005EdgeListInputs :
       LET fn == "gdf_edge_list_view"
           err == EdgeListColumnChecks(in)
           viewed == ViewedEdgeList(heap, in)
       IN IF err # "GDF_SUCCESS"
          THEN Return(fn, err)
               /\ UNCHANGED <<heap, edgeList, adjList, transposedAdjList>>
          ELSE IF ~IsNull(edgeList)
          THEN Return(fn, "GDF_INVALID_API_CALL")
               /\ UNCHANGED <<heap, edgeList, adjList, transposedAdjList>>
          ELSE Return(fn, viewed.err)
               /\ heap' = viewed.heap
               /\ edgeList' = viewed.rep
               /\ UNCHANGED <<adjList, transposedAdjList>>

\* The column checks of gdf_adj_list_view (part_005 64-68)
AdjListColumnChecks(in) ==
  IF in.offsets.null_count # 0 \/ in.indices.null_count # 0
  THEN "GDF_VALIDITY_UNSUPPORTED"
  ELSE IF in.offsets.dtype # in.indices.dtype
          \/ in.offsets.dtype \notin {"GDF_INT32", "GDF_INT64"}
  THEN "GDF_UNSUPPORTED_DTYPE"
  ELSE IF ~(in.offsets.size > 0) THEN "GDF_DATASET_EMPTY"
  ELSE "GDF_SUCCESS"

\* gdf_adj_list_view from the new gdf_adj_list on (part_005 71-86)
ViewedAdjList(h, in) ==
  LET base == Len(h)
      attached == [present |-> TRUE,
                   offsets |-> gdf_column_view(base + 1, in.offsets.size,
                                               in.offsets.dtype),
                   indices |-> gdf_column_view(base + 2, in.indices.size,
                                               in.indices.dtype),
                   edge_data |-> NullCol,
                   ownership |-> 0]
      columns == <<Buffer(in.offsets.values), Buffer(in.indices.values)>>
  IN IF IsNullCol(in.edge_data)
     THEN [err |-> "GDF_SUCCESS", heap |-> h \o columns, rep |-> attached]
     ELSE IF in.indices.size # in.edge_data.size
     THEN [err |-> "GDF_COLUMN_SIZE_MISMATCH", heap |-> h \o columns, rep |-> attached]
     ELSE [err |-> "GDF_SUCCESS",
           heap |-> h \o columns \o <<Buffer(in.edge_data.values)>>,
           rep |-> [attached EXCEPT !.edge_data =
                      gdf_column_view(base + 3, in.edge_data.size, in.edge_data.dtype)]]

\* gdf_adj_list_view (part_005 62-87)
gdf_adj_list_view_part_005 ==
  /\ ~ProcessEnded
  /\ UNCHANGED outside_graph
  /\ \E in \in Part005AdjListInputs :
       LET fn == "gdf_adj_list_view"
           err == AdjListColumnChecks(in)
           viewed == ViewedAdjList(heap, in)
       IN IF err # "GDF_SUCCESS"
          THEN Return(fn, err)
               /\ UNCHANGED <<heap, edgeList, adjList, transposedAdjList>>
          ELSE IF ~IsNull(adjList)
          THEN Return(fn, "GDF_INVALID_API_CALL")
               /\ UNCHANGED <<heap, edgeList, adjList, transposedAdjList>>
          ELSE Return(fn, viewed.err)
               /\ heap' = viewed.heap
               /\ adjList' = viewed.rep
               /\ UNCHANGED <<edgeList, transposedAdjList>>

\* gdf_add_transpose (part_005 438-458)
gdf_add_transpose ==
  /\ ~ProcessEnded
  /\ Len(heap) < MaxBuffers
  /\ UNCHANGED outside_graph
  /\ LET r == AddTransposedAdjList(heap, edgeList, adjList, transposedAdjList)
     IN /\ Return("gdf_add_transpose", r.err)
        /\ heap' = r.heap
        /\ edgeList' = r.edgeList
        /\ transposedAdjList' = r.transposedAdjList
        /\ UNCHANGED adjList

\* The library of part_005: gdf_add_adj_list (418-436) and gdf_add_edge_list
\* (287-310) are the functions of cugraph.cu line by line.
GraphNextPart005 ==
  \/ gdf_edge_list_view_part_005
  \/ gdf_adj_list_view_part_005
  \/ gdf_add_adj_list
  \/ gdf_add_edge_list
  \/ gdf_add_transpose

(***************************************************************************)
(* The delete functions (cugraph.cu 454-476) and the destructors of        *)
(* gdf_edge_list and gdf_adj_list, which free by the ownership tag.        *)
(***************************************************************************)
\* gdf_col_delete (cugraph.cu 35-52): the column's buffer is freed
gdf_col_delete(h, col) ==
  IF IsNullCol(col) THEN h ELSE [h EXCEPT ![col.data].live = FALSE]

\* gdf_col_release (cugraph.cu 54-58): only the descriptor is deleted
gdf_col_release(h, col) == h

\* ~gdf_adj_list: ownership 0 releases the three columns, any other tag
\* deletes them.
DestroyAdjList(h, rep) ==
  IF rep.ownership = 0
  THEN gdf_col_release(gdf_col_release(gdf_col_release(h, rep.offsets), rep.indices),
                       rep.edge_data)
  ELSE gdf_col_delete(gdf_col_delete(gdf_col_delete(h, rep.offsets), rep.indices),
                      rep.edge_data)

\* ~gdf_edge_list: ownership 0 releases the three columns, ownership 2
\* deletes src_indices and releases the other two, any other tag deletes
\* all three.
DestroyEdgeList(h, rep) ==
  IF rep.ownership = 0
  THEN gdf_col_release(gdf_col_release(gdf_col_release(h, rep.src_indices),
                                       rep.dest_indices), rep.edge_data)
  ELSE IF rep.ownership = 2
  THEN gdf_col_release(gdf_col_release(gdf_col_delete(h, rep.src_indices),
                                       rep.dest_indices), rep.edge_data)
  ELSE gdf_col_delete(gdf_col_delete(gdf_col_delete(h, rep.src_indices),
                                     rep.dest_indices), rep.edge_data)

\* The buffers the columns of a representation point to.
BuffersOf(rep) ==
  IF IsNull(rep) THEN {}
  ELSE {rep[f].data : f \in {g \in DOMAIN rep \ {"present", "ownership"} :
                                ~IsNullCol(rep[g])}}

\* Freed buffers at the end of the heap that no representation points to
\* are dropped from the model.
RECURSIVE Trim(_, _)
Trim(h, referenced) ==
  IF Len(h) > 0 /\ ~h[Len(h)].live /\ Len(h) \notin referenced
  THEN Trim(SubSeq(h, 1, Len(h) - 1), referenced)
  ELSE h

\* With no representation left, no buffer of the callers is tracked either.
HeapAfterDelete(h, el, al, tal) ==
  IF IsNull(el) /\ IsNull(al) /\ IsNull(tal) THEN <<>>
  ELSE Trim(h, BuffersOf(el) \cup BuffersOf(al) \cup BuffersOf(tal))

\* gdf_delete_adj_list (cugraph.cu 454-460)
gdf_delete_adj_list ==
  /\ ~ProcessEnded
  /\ UNCHANGED outside_graph
  /\ Return("gdf_delete_adj_list", "GDF_SUCCESS")
  /\ heap' = HeapAfterDelete(IF IsNull(adjList) THEN heap
                             ELSE DestroyAdjList(heap, adjList),
                             edgeList, NullRep, transposedAdjList)
  /\ adjList' = NullRep
  /\ UNCHANGED <<edgeList, transposedAdjList>>

\* gdf_delete_edge_list (cugraph.cu 462-468)
gdf_delete_edge_list ==
  /\ ~ProcessEnded
  /\ UNCHANGED outside_graph
  /\ Return("gdf_delete_edge_list", "GDF_SUCCESS")
  /\ heap' = HeapAfterDelete(IF IsNull(edgeList) THEN heap
                             ELSE DestroyEdgeList(heap, edgeList),
                             NullRep, adjList, transposedAdjList)
  /\ edgeList' = NullRep
  /\ UNCHANGED <<adjList, transposedAdjList>>

\* gdf_delete_transposed_adj_list (cugraph.cu 470-476)
gdf_delete_transposed_adj_list ==
  /\ ~ProcessEnded
  /\ UNCHANGED outside_graph
  /\ Return("gdf_delete_transposed_adj_list", "GDF_SUCCESS")
  /\ heap' = HeapAfterDelete(IF IsNull(transposedAdjList) THEN heap
                             ELSE DestroyAdjList(heap, transposedAdjList),
                             edgeList, adjList, NullRep)
  /\ transposedAdjList' = NullRep
  /\ UNCHANGED <<edgeList, adjList>>

\* gdf_edge_list_view (cugraph.cu 209-239) called with one of the small
\* edge lists.
gdf_edge_list_view_single ==
  LET fn == "gdf_edge_list_view" IN
  \/ /\ ~ProcessEnded
     /\ UNCHANGED outside_graph
     /\ HoldsRepresentation
     /\ Return(fn, "GDF_INVALID_API_CALL")
     /\ UNCHANGED <<heap, edgeList, adjList, transposedAdjList>>
  \/ /\ ~ProcessEnded
     /\ UNCHANGED outside_graph
     /\ ~HoldsRepresentation
     /\ \E in \in Part005EdgeListInputs :
          LET err == EdgeListColumnChecks(in)
              viewed == ViewedEdgeList(heap, in)
          IN IF err # "GDF_SUCCESS"
             THEN Return(fn, err)
                  /\ UNCHANGED <<heap, edgeList, adjList, transposedAdjList>>
             ELSE Return(fn, viewed.err)
                  /\ heap' = viewed.heap
                  /\ edgeList' = viewed.rep
                  /\ UNCHANGED <<adjList, transposedAdjList>>

\* gdf_adj_list_view (cugraph.cu 67-95) called with one of the small
\* adjacency lists.
gdf_adj_list_view_single ==
  LET fn == "gdf_adj_list_view" IN
  \/ /\ ~ProcessEnded
     /\ UNCHANGED outside_graph
     /\ HoldsRepresentation
     /\ Return(fn, "GDF_INVALID_API_CALL")
     /\ UNCHANGED <<heap, edgeList, adjList, transposedAdjList>>
  \/ /\ ~ProcessEnded
     /\ UNCHANGED outside_graph
     /\ ~HoldsRepresentation
     /\ \E in \in Part005AdjListInputs :
          LET err == AdjListColumnChecks(in)
              viewed == ViewedAdjList(heap, in)
          IN IF err # "GDF_SUCCESS"
             THEN Return(fn, err)
                  /\ UNCHANGED <<heap, edgeList, adjList, transposedAdjList>>
             ELSE Return(fn, viewed.err)
                  /\ heap' = viewed.heap
                  /\ adjList' = viewed.rep
                  /\ UNCHANGED <<edgeList, transposedAdjList>>

\* Every entry point that changes the representations of a gdf_graph.
GraphLifecycleNext ==
  \/ gdf_edge_list_view_single
  \/ gdf_adj_list_view_single
  \/ gdf_add_adj_list
  \/ gdf_add_edge_list
  \/ gdf_add_transposed_adj_list
  \/ gdf_delete_adj_list
  \/ gdf_delete_edge_list
  \/ gdf_delete_transposed_adj_list

GraphNext ==
  \/ gdf_edge_list_view
  \/ gdf_adj_list_view
  \/ gdf_add_adj_list
  \/ gdf_add_edge_list
  \/ gdf_add_transposed_adj_list

(***************************************************************************)
(* Properties of the graph object.                                         *)
(***************************************************************************)
\* The adjacency lists the add operations built (ownership 1).
Built(rep) == ~IsNull(rep) /\ rep.ownership = 1

Src == ColumnValues(heap, edgeList.src_indices)
Dst == ColumnValues(heap, edgeList.dest_indices)
Wgt == EdgeWeights(heap, edgeList)

\* The number of vertices of the attached edge list: largest id plus one.
EdgeListVertices == Max2(SeqMax(Src), SeqMax(Dst)) + 1

CSRInvariant(rep) ==
  LET n == EdgeListVertices
      offsets == ColumnValues(heap, rep.offsets)
      indices == ColumnValues(heap, rep.indices)
  IN /\ rep.offsets.size = n + 1
     /\ Len(offsets) = n + 1
     /\ \A v \in 1 .. n : offsets[v] <= offsets[v + 1]
     /\ offsets[1] = 0
     /\ offsets[n + 1] = rep.indices.size
     /\ Len(indices) = rep.indices.size
     /\ rep.indices.size = edgeList.src_indices.size
     /\ \A k \in 1 .. Len(indices) : indices[k] \in 0 .. n - 1

\* C5: every adjacency list and transposed adjacency list that
\* gdf_add_adj_list / gdf_add_transposed_adj_list built from the attached
\* edge list over n vertices has an offsets array of length n+1 that is
\* non-decreasing, starts at 0 and ends at the number of entries of indices,
\* which is the number of input edges, and every index is in [0, n).
C5_CSRInvariant ==
  ~IsNull(edgeList) =>
    /\ Built(adjList) => CSRInvariant(adjList)
    /\ Built(transposedAdjList) => CSRInvariant(transposedAdjList)

\* Both lists were built from an edge list with a vertex that has no outgoing
\* edge and one that has no incoming edge.
C5_Witness ==
  /\ ~IsNull(edgeList) /\ Built(adjList) /\ Built(transposedAdjList)
  /\ edgeList.src_indices.size = 3
  /\ \E v \in 0 .. EdgeListVertices - 1 : v \notin Range(Src)
  /\ \E v \in 0 .. EdgeListVertices - 1 : v \notin Range(Dst)
  /\ ColumnValues(heap, adjList.offsets) # ColumnValues(heap, transposedAdjList.offsets)

\* The positions of vertex v's list in an adjacency list.
ListOf(rep, v) ==
  LET offsets == ColumnValues(heap, rep.offsets)
  IN offsets[v + 1] + 1 .. offsets[v + 2]

\* C6: in the adjacency list gdf_add_adj_list built, the list of every vertex
\* v holds exactly the destinations of the input edges with source v, each as
\* often as it occurs in the input, and with weights the weight at position k
\* is the weight of the input edge placed at position k; the edges (0,1),
\* (0,2), (1,2) give the offsets [0,2,3,3].
C6_AdjacencyMultiset ==
  (~IsNull(edgeList) /\ Built(adjList)) =>
    LET indices == ColumnValues(heap, adjList.indices)
        weighted == ~IsNullCol(edgeList.edge_data)
        weights == EdgeWeights(heap, adjList)
        nnz == edgeList.src_indices.size
    IN /\ weighted = ~IsNullCol(adjList.edge_data)
       /\ weighted => /\ adjList.edge_data.dtype = edgeList.edge_data.dtype
                      /\ Len(weights) = nnz
       /\ \A v \in 0 .. EdgeListVertices - 1 :
            /\ \A x \in VertexIds :
                 Cardinality({k \in ListOf(adjList, v) : indices[k] = x})
                   = Cardinality({i \in 1 .. nnz : Src[i] = v /\ Dst[i] = x})
            /\ weighted =>
                 \A k \in ListOf(adjList, v) :
                   \E i \in 1 .. nnz :
                     /\ Src[i] = v
                     /\ Dst[i] = indices[k]
                     /\ Wgt[i] = weights[k]
       /\ (Src = <<0, 0, 1>> /\ Dst = <<1, 2, 2>>) =>
            /\ ColumnValues(heap, adjList.offsets) = <<0, 2, 3, 3>>
            /\ indices = <<1, 2, 2>>

\* A weighted edge list with a parallel edge whose sources are not in order
\* was converted.
C6_Witness ==
  /\ ~IsNull(edgeList) /\ Built(adjList)
  /\ ~IsNullCol(adjList.edge_data)
  /\ \E i, j \in 1 .. Len(Src) : i < j /\ Src[i] > Src[j]
  /\ \E i, j \in 1 .. Len(Src) : i < j /\ Src[i] = Src[j] /\ Dst[i] = Dst[j]
  /\ EdgeWeights(heap, adjList) # Wgt

\* The 64-bit half of C11 on its own: with a 64-bit edge list attached no
\* built list exists, and the two add functions answer GDF_UNSUPPORTED_DTYPE.
C11_UnsupportedWidth ==
  (~IsNull(edgeList) /\ edgeList.src_indices.dtype = "GDF_INT64") =>
    /\ ~Built(adjList) /\ ~Built(transposedAdjList)
    /\ (last_call = "gdf_add_adj_list" /\ IsNull(adjList)) =>
         gdf_error = "GDF_UNSUPPORTED_DTYPE"
    /\ last_call = "gdf_add_transposed_adj_list" =>
         gdf_error = "GDF_UNSUPPORTED_DTYPE"

\* A 64-bit edge list was handed to one of the two add functions.
C11_UnsupportedWidthReached ==
  /\ ~IsNull(edgeList) /\ edgeList.src_indices.dtype = "GDF_INT64"
  /\ last_call \in {"gdf_add_adj_list", "gdf_add_transposed_adj_list"}
  /\ gdf_error = "GDF_UNSUPPORTED_DTYPE"

\* C11: no adjacency list or transposed adjacency list is built from zero
\* edges, a zero-length edge list is answered with GDF_DATASET_EMPTY and
\* nothing attached, and gdf_add_adj_list (with no adjacency list yet) and
\* gdf_add_transposed_adj_list on a 64-bit edge list return
\* GDF_UNSUPPORTED_DTYPE; in both cases no built adjacency list is attached.
C11_EmptyAndUnsupported ==
  /\ Built(adjList) => adjList.indices.size > 0
  /\ Built(transposedAdjList) => transposedAdjList.indices.size > 0
  /\ gdf_error = "GDF_DATASET_EMPTY" =>
       IsNull(edgeList) /\ IsNull(adjList) /\ IsNull(transposedAdjList)
  /\ C11_UnsupportedWidth

\* C13: a call of gdf_edge_list_view or gdf_adj_list_view on a graph that
\* holds any representation returns GDF_INVALID_API_CALL and changes neither
\* the representations nor the buffers.
C13_ViewsRejectNonEmpty ==
  [][(last_call' \in {"gdf_edge_list_view", "gdf_adj_list_view"}
      /\ HoldsRepresentation)
     => (gdf_error' = "GDF_INVALID_API_CALL"
         /\ UNCHANGED <<heap, edgeList, adjList, transposedAdjList>>)]_vars

\* C13, its consequence: the graph never holds a viewed edge list together
\* with a viewed adjacency list.
C13_OneGraph ==
  ~(~IsNull(edgeList) /\ edgeList.ownership = 0
    /\ ~IsNull(adjList) /\ adjList.ownership = 0)

\* C14: whenever gdf_edge_list_view or gdf_adj_list_view returns an error,
\* an edge_data column of another length than the index columns included,
\* the graph holds exactly the representations it held before the call.
C14_ErrorsLeaveGraph ==
  [][(last_call' \in {"gdf_edge_list_view", "gdf_adj_list_view"}
      /\ gdf_error' # "GDF_SUCCESS")
     => UNCHANGED <<edgeList, adjList, transposedAdjList>>]_vars

\* The errors of the checks that come before the new representation leave
\* the graph as it was.
C14_EarlyErrorsLeaveGraph ==
  [][(last_call' \in {"gdf_edge_list_view", "gdf_adj_list_view"}
      /\ gdf_error' \notin {"GDF_SUCCESS", "GDF_COLUMN_SIZE_MISMATCH"})
     => UNCHANGED <<heap, edgeList, adjList, transposedAdjList>>]_vars

\* C15: gdf_add_adj_list, gdf_add_edge_list and gdf_add_transposed_adj_list
\* (gdf_add_transpose) called on a graph with no representation return
\* GDF_INVALID_API_CALL, dereference no null representation and leave the
\* graph empty.
C15_AddOnEmptyGraph ==
  [][(last_call' \in {"gdf_add_adj_list", "gdf_add_edge_list",
                      "gdf_add_transposed_adj_list", "gdf_add_transpose"}
      /\ ~HoldsRepresentation)
     => (gdf_error' = "GDF_INVALID_API_CALL"
         /\ UNCHANGED <<heap, edgeList, adjList, transposedAdjList>>)]_vars

\* The two add functions that check their input representation do so.
C15_CheckedAddOnEmptyGraph ==
  [][(last_call' \in {"gdf_add_adj_list", "gdf_add_edge_list"}
      /\ ~HoldsRepresentation)
     => (gdf_error' = "GDF_INVALID_API_CALL"
         /\ UNCHANGED <<heap, edgeList, adjList, transposedAdjList>>)]_vars

\* No two attached representations point to one buffer.
NoSharedBuffer ==
  /\ BuffersOf(edgeList) \cap BuffersOf(adjList) = {}
  /\ BuffersOf(edgeList) \cap BuffersOf(transposedAdjList) = {}
  /\ BuffersOf(adjList) \cap BuffersOf(transposedAdjList) = {}

\* No attached representation points to a buffer that was freed.
NoDanglingColumn ==
  \A b \in BuffersOf(edgeList) \cup BuffersOf(adjList)
            \cup BuffersOf(transposedAdjList) : heap[b].live

\* C17: after any sequence of view, add and delete calls no buffer is
\* referenced by two attached representations, and no attached
\* representation points to a buffer that a delete released.
C17_NoAliasNoDangling == NoSharedBuffer /\ NoDanglingColumn

\* The number of edges (u, v) of the graph: read from the adjacency list
\* when the caller gave one to gdf_adj_list_view, from the edge list
\* otherwise.
EdgeCount(u, v) ==
  IF ~IsNull(adjList) /\ adjList.ownership = 0
  THEN IF u >= adjList.offsets.size - 1 THEN 0
       ELSE Cardinality({k \in ListOf(adjList, u) :
                           ColumnValues(heap, adjList.indices)[k] = v})
  ELSE Cardinality({i \in 1 .. edgeList.src_indices.size :
                      Src[i] = u /\ Dst[i] = v})

\* The weight of an edge (u, v) of the graph is w.
HasWeightedEdge(u, v, w) ==
  IF ~IsNull(adjList) /\ adjList.ownership = 0
  THEN /\ u < adjList.offsets.size - 1
       /\ \E k \in ListOf(adjList, u) :
            /\ ColumnValues(heap, adjList.indices)[k] = v
            /\ EdgeWeights(heap, adjList)[k] = w
  ELSE \E i \in 1 .. edgeList.src_indices.size :
         Src[i] = u /\ Dst[i] = v /\ Wgt[i] = w

\* C18: in the transposed adjacency list gdf_add_transposed_adj_list built,
\* the list of every vertex v holds every u exactly as often as the graph
\* has an edge (u, v), no edge is lost, also when the edge list was derived
\* from the caller's adjacency list by gdf_add_edge_list, and with weights
\* the weight at position k is the weight of an edge (indices[k], v).
C18_TransposedIsSwappedConversion ==
  Built(transposedAdjList) =>
    LET n == transposedAdjList.offsets.size - 1
        indices == ColumnValues(heap, transposedAdjList.indices)
        weights == EdgeWeights(heap, transposedAdjList)
        weighted == ~IsNullCol(edgeList.edge_data)
    IN /\ ~IsNull(edgeList)
       /\ transposedAdjList.indices.size = edgeList.src_indices.size
       /\ Len(indices) = transposedAdjList.indices.size
       /\ \A u, v \in VertexIds :
            EdgeCount(u, v) =
              IF v >= n THEN 0
              ELSE Cardinality({k \in ListOf(transposedAdjList, v) : indices[k] = u})
       /\ weighted = ~IsNullCol(transposedAdjList.edge_data)
       /\ weighted =>
            /\ Len(weights) = Len(indices)
            /\ \A v \in 0 .. n - 1 : \A k \in ListOf(transposedAdjList, v) :
                 HasWeightedEdge(indices[k], v, weights[k])

\* The transposed list was built from a weighted edge list of three edges
\* that gdf_add_edge_list derived from the caller's adjacency list, and it
\* differs from that adjacency list.
C18_Witness ==
  /\ Built(transposedAdjList)
  /\ ~IsNull(adjList) /\ adjList.ownership = 0
  /\ ~IsNull(edgeList) /\ edgeList.ownership = 2
  /\ ~IsNullCol(transposedAdjList.edge_data)
  /\ transposedAdjList.indices.size = 3
  /\ ColumnValues(heap, transposedAdjList.offsets) # ColumnValues(heap, adjList.offsets)
  /\ last_call = "gdf_add_transposed_adj_list"

\* The same for an edge list the caller gave to gdf_edge_list_view.
C18_WitnessViewed ==
  /\ Built(transposedAdjList)
  /\ ~IsNull(edgeList) /\ edgeList.ownership = 0
  /\ ~IsNullCol(transposedAdjList.edge_data)
  /\ Src = <<0, 0, 1>> /\ Dst = <<1, 2, 2>>
  /\ ColumnValues(heap, transposedAdjList.offsets) = <<0, 0, 1, 3>>
  /\ ColumnValues(heap, transposedAdjList.indices) = <<0, 0, 1>>

(***************************************************************************)
(* Part 3: gdf_renumber_vertices, in its two versions:                     *)
(* src/cpp/src/cugraph.cu 115-207 and src/unnamed/part_005 107-208.        *)
(*                                                                         *)
(* Raw identifiers are ordered keys (non-negative, below 2^31); a buffer   *)
(* has an element width, and a column is read at the width its dtype       *)
(* names.  The 32-bit type of the renumbered ids is scaled to DenseIdBits   *)
(* bits, so that INT32_MAX stands for the 0x7fffffff of the source and a   *)
(* store of a larger id wraps.                                             *)
(***************************************************************************)
MaxRenumberEdges == 3
DenseIdBits == 3

\* 0x7fffffff at the scaled width
INT32_MAX == 2 ^ (DenseIdBits - 1) - 1

\* A store into an int32_t: the value modulo the width, two's complement.
ToInt32(x) ==
  ((x + 2 ^ (DenseIdBits - 1)) % 2 ^ DenseIdBits) - 2 ^ (DenseIdBits - 1)

RawIds32 == {10, 20, 30, 40}
RawIds64 == {10, 30, 40, 50}

Width(dtype) == IF dtype = "GDF_INT64" THEN 64 ELSE 32

\* A column over a buffer of `width`-bit elements.
Column(elems, width, size, dtype) ==
  [buf |-> [width |-> width, elems |-> elems], size |-> size, dtype |-> dtype]

\* A caller's input column: the buffer has the width of the dtype.
InputColumn(elems, dtype) == Column(elems, Width(dtype), Len(elems), dtype)

\* An output column the call has not touched.
Untouched == Column(<<>>, 32, 0, "untouched")

\* The 32-bit words of a buffer of 64-bit elements below 2^31, low word
\* first.
RECURSIVE Words(_)
Words(elems) ==
  IF elems = <<>> THEN <<>> ELSE <<Head(elems), 0>> \o Words(Tail(elems))

\* The first `size` elements of a column read at the width of its dtype.
ReadColumn(col) ==
  LET stored == IF Width(col.dtype) = 32 /\ col.buf.width = 64
                THEN Words(col.buf.elems) ELSE col.buf.elems
  IN SubSeq(stored, 1, Min2(col.size, Len(stored)))

\* Columns that violate one of the preconditions each.
RejectedInputs ==
  {<<InputColumn(<<10, 30>>, "GDF_INT32"), InputColumn(<<30>>, "GDF_INT32")>>,
   <<InputColumn(<<10, 30>>, "GDF_INT32"), InputColumn(<<30>>, "GDF_INT64")>>,
   <<InputColumn(<<10, 30>>, "GDF_INT32"), InputColumn(<<30, 40>>, "GDF_INT64")>>,
   <<InputColumn(<<10, 30>>, "GDF_INT64"), InputColumn(<<30, 40>>, "GDF_INT32")>>,
   <<InputColumn(<<10, 30>>, "GDF_FLOAT32"), InputColumn(<<30, 40>>, "GDF_FLOAT32")>>,
   <<InputColumn(<<10, 30>>, "GDF_FLOAT64"), InputColumn(<<30, 40>>, "GDF_FLOAT64")>>,
   <<InputColumn(<<>>, "GDF_INT32"), InputColumn(<<>>, "GDF_INT32")>>,
   <<InputColumn(<<>>, "GDF_INT64"), InputColumn(<<>>, "GDF_INT64")>>}

\* The caller's columns: every pair of id columns of up to MaxRenumberEdges
\* entries, the scenario [10,10,30,40] / [30,40,10,10] and an edge list with
\* INT32_MAX + 2 distinct identifiers at both widths, and the rejected inputs.
RenumberInit ==
  /\ \/ \E n \in 1 .. MaxRenumberEdges :
          \E s \in [1 .. n -> RawIds32], d \in [1 .. n -> RawIds32] :
            /\ rn_src = InputColumn(s, "GDF_INT32")
            /\ rn_dst = InputColumn(d, "GDF_INT32")
     \/ \E n \in 1 .. MaxRenumberEdges :
          \E s \in [1 .. n -> RawIds64], d \in [1 .. n -> RawIds64] :
            /\ rn_src = InputColumn(s, "GDF_INT64")
            /\ rn_dst = InputColumn(d, "GDF_INT64")
     \/ \E t \in {"GDF_INT32", "GDF_INT64"} :
          /\ rn_src = InputColumn(<<10, 10, 30, 40>>, t)
          /\ rn_dst = InputColumn(<<30, 40, 10, 10>>, t)
     \/ \E t \in {"GDF_INT32", "GDF_INT64"} :
          /\ rn_src = InputColumn(<<10, 20, 30>>, t)
          /\ rn_dst = InputColumn(<<40, 50, 10>>, t)
     \/ \E in \in RejectedInputs : rn_src = in[1] /\ rn_dst = in[2]
  /\ src_renumbered = Untouched
  /\ dst_renumbered = Untouched
  /\ numbering_map = Untouched
  /\ rn_error = "not called"
  /\ rn_version = "none"

\* No call of gdf_renumber_vertices, for the specifications of the other parts.
RenumberIdle ==
  /\ rn_src = Untouched
  /\ rn_dst = Untouched
  /\ src_renumbered = Untouched
  /\ dst_renumbered = Untouched
  /\ numbering_map = Untouched
  /\ rn_error = "not called"
  /\ rn_version = "none"

\* cugraph::renumber_vertices (renumber.cuh): the distinct identifiers of src
\* and dst in increasing order are the numbering map, the dense id of an
\* identifier is its position in it, stored as an int32_t.
DenseId(ids, x) == Cardinality({y \in ids : y < x})
renumber_vertices(src, dst) ==
  LET ids == Range(src) \cup Range(dst)
  IN [err |-> "GDF_SUCCESS",
      src_renumbered |-> [k \in 1 .. Len(src) |-> ToInt32(DenseId(ids, src[k]))],
      dst_renumbered |-> [k \in 1 .. Len(dst) |-> ToInt32(DenseId(ids, dst[k]))],
      new_size |-> Cardinality(ids),
      numbering_map |-> SetToSortedSeq(ids)]

\* A GDF_REQUIRE that fails after the output columns were set up.
RejectedLate(err) ==
  [err |-> err,
   src_renumbered |-> Column(<<>>, 32, 0, "uninitialized"),
   dst_renumbered |-> Column(<<>>, 32, 0, "uninitialized"),
   numbering_map |-> Column(<<>>, 32, 0, "uninitialized")]

\* GDF_REQUIRE fails (cugraph.cu 118-121, part_005 111-114): the error is
\* returned from the top of the function, where nothing was allocated yet.
Rejected(err) ==
  [err |-> err,
   src_renumbered |-> src_renumbered,
   dst_renumbered |-> dst_renumbered,
   numbering_map |-> numbering_map]

\* What ALLOC_FREE_TRY(src_renumbered, stream) can make the call return: it
\* is handed the column structure, not a device buffer, so the release may
\* fail, and then the call returns the memory manager's error.
FreeOutcomes == {"GDF_COLUMN_SIZE_TOO_BIG", "GDF_MEMORYMANAGER_ERROR"}

\* The checks both versions start with.
Requirement(src, dst) ==
  IF src.size # dst.size THEN "GDF_COLUMN_SIZE_MISMATCH"
  ELSE IF src.dtype # dst.dtype THEN "GDF_UNSUPPORTED_DTYPE"
  ELSE IF src.dtype \notin {"GDF_INT32", "GDF_INT64"} THEN "GDF_UNSUPPORTED_DTYPE"
  ELSE IF ~(src.size > 0) THEN "GDF_DATASET_EMPTY"
  ELSE "GDF_SUCCESS"

\* gdf_renumber_vertices of src/cpp/src/cugraph.cu (115-207)
RenumberCurrent(src, dst, free_err) ==
  IF Requirement(src, dst) # "GDF_SUCCESS" THEN Rejected(Requirement(src, dst))
  ELSE LET r == renumber_vertices(ReadColumn(src), ReadColumn(dst))
       IN IF src.dtype = "GDF_INT32"
          THEN [err |-> r.err,
                src_renumbered |-> Column(r.src_renumbered, 32, src.size, src.dtype),
                dst_renumbered |-> Column(r.dst_renumbered, 32, dst.size, dst.dtype),
                numbering_map |-> Column(r.numbering_map, 32, r.new_size, src.dtype)]
          ELSE IF r.new_size > INT32_MAX
          THEN [err |-> free_err,
                src_renumbered |-> Column(r.src_renumbered, 32, src.size, "GDF_INT32"),
                dst_renumbered |-> Column(r.dst_renumbered, 32, dst.size, "GDF_INT32"),
                numbering_map |-> numbering_map]
          ELSE [err |-> r.err,
                src_renumbered |-> Column(r.src_renumbered, 32, src.size, "GDF_INT32"),
                dst_renumbered |-> Column(r.dst_renumbered, 32, dst.size, "GDF_INT32"),
                numbering_map |-> Column(r.numbering_map, 64, r.new_size, src.dtype)]

\* gdf_renumber_vertices of src/unnamed/part_005 (107-208): the outputs are
\* new gdf_columns, and the numbering map is labelled GDF_INT32 on both
\* paths (lines 160 and 200).
RenumberPart005(src, dst, free_err) ==
  IF Requirement(src, dst) # "GDF_SUCCESS" THEN Rejected(Requirement(src, dst))
  ELSE LET r == renumber_vertices(ReadColumn(src), ReadColumn(dst))
       IN IF src.dtype = "GDF_INT32"
          THEN [err |-> r.err,
                src_renumbered |-> Column(r.src_renumbered, 32, src.size, src.dtype),
                dst_renumbered |-> Column(r.dst_renumbered, 32, dst.size, dst.dtype),
                numbering_map |-> Column(r.numbering_map, 32, r.new_size, "GDF_INT32")]
          ELSE IF r.new_size > INT32_MAX
          THEN [err |-> free_err,
                src_renumbered |-> Column(r.src_renumbered, 32, src.size, "GDF_INT32"),
                dst_renumbered |-> Column(r.dst_renumbered, 32, dst.size, "GDF_INT32"),
                numbering_map |-> Column(<<>>, 32, 0, "uninitialized")]
          ELSE [err |-> r.err,
                src_renumbered |-> Column(r.src_renumbered, 32, src.size, "GDF_INT32"),
                dst_renumbered |-> Column(r.dst_renumbered, 32, dst.size, "GDF_INT32"),
                numbering_map |-> Column(r.numbering_map, 64, r.new_size, "GDF_INT32")]

RenumberReturns(version, r) ==
  /\ rn_error' = r.err
  /\ rn_version' = version
  /\ src_renumbered' = r.src_renumbered
  /\ dst_renumbered' = r.dst_renumbered
  /\ numbering_map' = r.numbering_map
  /\ UNCHANGED <<rn_src, rn_dst>>

gdf_renumber_vertices ==
  /\ rn_error = "not called"
  /\ UNCHANGED outside_renumber
  /\ \E free_err \in FreeOutcomes :
       RenumberReturns("cugraph.cu", RenumberCurrent(rn_src, rn_dst, free_err))

gdf_renumber_vertices_part_005 ==
  /\ rn_error = "not called"
  /\ UNCHANGED outside_renumber
  /\ \E free_err \in FreeOutcomes :
       RenumberReturns("part_005", RenumberPart005(rn_src, rn_dst, free_err))

RenumberNext ==
  \/ gdf_renumber_vertices
  \/ gdf_renumber_vertices_part_005

(***************************************************************************)
(* Properties of gdf_renumber_vertices.                                    *)
(***************************************************************************)
Called == rn_error # "not called"
Accepted == rn_error = "GDF_SUCCESS"
Checked == Called /\ Requirement(rn_src, rn_dst) = "GDF_SUCCESS"

InSrc == ReadColumn(rn_src)
InDst == ReadColumn(rn_dst)
DistinctIds == Range(InSrc) \cup Range(InDst)
OutSrc == ReadColumn(src_renumbered)
OutDst == ReadColumn(dst_renumbered)
OutMap == ReadColumn(numbering_map)

\* Looking the renumbered ids up in the numbering map gives the input back.
RoundTrip ==
  /\ Len(OutSrc) = Len(InSrc)
  /\ Len(OutDst) = Len(InDst)
  /\ \A k \in 1 .. Len(InSrc) :
       /\ OutSrc[k] + 1 \in 1 .. Len(OutMap)
       /\ OutMap[OutSrc[k] + 1] = InSrc[k]
  /\ \A k \in 1 .. Len(InDst) :
       /\ OutDst[k] + 1 \in 1 .. Len(OutMap)
       /\ OutMap[OutDst[k] + 1] = InDst[k]

\* The dense ids are the ranks of the identifiers in increasing order.
SortedBijection ==
  /\ numbering_map.size = Cardinality(DistinctIds)
  /\ Len(OutSrc) = Len(InSrc)
  /\ Len(OutDst) = Len(InDst)
  /\ \A k \in 1 .. Len(InSrc) :
       OutSrc[k] = Cardinality({y \in DistinctIds : y < InSrc[k]})
  /\ \A k \in 1 .. Len(InDst) :
       OutDst[k] = Cardinality({y \in DistinctIds : y < InDst[k]})
  /\ Range(OutSrc) \cup Range(OutDst) = 0 .. Cardinality(DistinctIds) - 1

\* While every dense id fits the 32-bit output, the version of cugraph.cu
\* returns a numbering map that gives the input back, at the input's width.
RoundTripBelowCeiling ==
  (Accepted /\ rn_version = "cugraph.cu"
     /\ Cardinality(DistinctIds) <= INT32_MAX + 1) =>
    RoundTrip /\ numbering_map.dtype = rn_src.dtype

\* While every dense id fits the 32-bit output, both versions number the
\* identifiers in increasing order.
SortedBijectionBelowCeiling ==
  (Accepted /\ Cardinality(DistinctIds) <= INT32_MAX + 1) => SortedBijection

\* C7: for every input gdf_renumber_vertices accepts, 32-bit or 64-bit,
\* numbering_map[src_renumbered[k]] = src[k] and numbering_map[dst_renumbered[k]]
\* = dst[k] for every edge position k; the numbering map has the dtype of the
\* input and the renumbered columns are 32-bit.
C7_RoundTrip ==
  Accepted =>
    /\ RoundTrip
    /\ numbering_map.dtype = rn_src.dtype
    /\ src_renumbered.dtype = "GDF_INT32"
    /\ dst_renumbered.dtype = "GDF_INT32"

\* C8: gdf_renumber_vertices maps the d distinct identifiers of src and dst
\* one-to-one onto [0, d), in increasing order of the identifier; src
\* [10,10,30,40], dst [30,40,10,10] gives d = 3 and 10->0, 30->1, 40->2.
C8_SortedBijection ==
  Accepted =>
    /\ SortedBijection
    /\ (InSrc = <<10, 10, 30, 40>> /\ InDst = <<30, 40, 10, 10>>) =>
         /\ numbering_map.size = 3
         /\ OutSrc = <<0, 0, 1, 2>>
         /\ OutDst = <<1, 2, 0, 0>>

\* C9: whenever the number of distinct identifiers exceeds the largest 32-bit
\* vertex id, the call fails with the overflow error, whatever the width of
\* the input, and returns no truncated id as a valid result.
C9_OverflowChecked ==
  /\ (Checked /\ Cardinality(DistinctIds) > INT32_MAX) =>
       rn_error = "GDF_COLUMN_SIZE_TOO_BIG"
  /\ Accepted =>
       \A k \in 1 .. Len(OutSrc) :
         OutSrc[k] \in 0 .. INT32_MAX /\ OutDst[k] \in 0 .. INT32_MAX

OutputsUntouched ==
  /\ src_renumbered = Untouched
  /\ dst_renumbered = Untouched
  /\ numbering_map = Untouched

\* C10: when src and dst differ in length the call returns the size-mismatch
\* error, and when they have one length but different dtypes, or a dtype that
\* is neither 32-bit nor 64-bit integer, it returns the unsupported-type
\* error; in both cases none of the three output columns was allocated or
\* written.
C10_ChecksBeforeOutputs ==
  Called =>
    /\ rn_src.size # rn_dst.size =>
         rn_error = "GDF_COLUMN_SIZE_MISMATCH" /\ OutputsUntouched
    /\ (rn_src.size = rn_dst.size
          /\ (rn_src.dtype # rn_dst.dtype
                \/ rn_src.dtype \notin {"GDF_INT32", "GDF_INT64"})) =>
         rn_error = "GDF_UNSUPPORTED_DTYPE" /\ OutputsUntouched

\* A call with columns of one length, 32-bit src and 64-bit dst, was rejected.
C10_Witness ==
  /\ Called
  /\ rn_src.size = rn_dst.size
  /\ rn_src.dtype = "GDF_INT32" /\ rn_dst.dtype = "GDF_INT64"
  /\ rn_error = "GDF_UNSUPPORTED_DTYPE"
  /\ OutputsUntouched

(***************************************************************************)
(* Part 4: gdf_pagerank_impl (src/unnamed/part_005 357-415) around the     *)
(* power iteration cugraph::pagerank.                                      *)
(*                                                                         *)
(* A vector is named by how it came about: the caller's content of the     *)
(* pagerank column, the uniform start vector, or the k-th iterate.         *)
(***************************************************************************)
\* Bounds of the iteration cap and of the tolerance handed to the call.
MaxIter == 4
MaxTolerance == 3

CallerVector == [kind |-> "caller", k |-> 0]
UniformVector == [kind |-> "uniform", k |-> 0]
Iterate(k) == [kind |-> "iterate", k |-> k]
Unallocated == [kind |-> "unallocated", k |-> 0]

\* The residuals of the initial vector: the residual halves per iteration.
InitialResiduals == {4, 8, 16}

PagerankInit ==
  /\ pr_pc = "called"
  /\ pagerank = CallerVector
  /\ pagerank_arg \in {"ok", "null_count", "empty"}
  /\ alpha_valid \in BOOLEAN
  /\ tolerance \in 1 .. MaxTolerance
  /\ max_iter \in 1 .. MaxIter
  /\ has_guess \in BOOLEAN
  /\ residual0 \in InitialResiduals
  /\ d_pr = Unallocated
  /\ residual = 1
  /\ iter = 0
  /\ status = 0
  /\ pr_allocated = {}
  /\ pr_error = "not returned"

\* No call of gdf_pagerank_impl, for the specifications of the other parts.
PagerankIdle ==
  /\ pr_pc = "idle"
  /\ pagerank = CallerVector
  /\ pagerank_arg = "ok"
  /\ alpha_valid = TRUE
  /\ tolerance = 1
  /\ max_iter = 1
  /\ has_guess = FALSE
  /\ residual0 = 4
  /\ d_pr = Unallocated
  /\ residual = 1
  /\ iter = 0
  /\ status = 0
  /\ pr_allocated = {}
  /\ pr_error = "not returned"

\* gdf_pagerank_impl up to the call of the solver (part_005 364-396): the
\* checks of the pagerank column, the three device buffers, the guess.
gdf_pagerank_impl_begin ==
  /\ pr_pc = "called"
  /\ UNCHANGED outside_pagerank
  /\ UNCHANGED <<pagerank, pagerank_arg, alpha_valid, tolerance, max_iter,
                 has_guess, residual0, residual, iter, status>>
  /\ IF pagerank_arg = "null_count"
     THEN /\ pr_error' = "GDF_VALIDITY_UNSUPPORTED"
          /\ pr_pc' = "returned"
          /\ UNCHANGED <<d_pr, pr_allocated>>
     ELSE IF pagerank_arg = "empty"
     THEN /\ pr_error' = "GDF_INVALID_API_CALL"
          /\ pr_pc' = "returned"
          /\ UNCHANGED <<d_pr, pr_allocated>>
     ELSE /\ pr_allocated' = {"d_leaf_vector", "d_val", "d_pr"}
          /\ d_pr' = IF has_guess THEN pagerank ELSE UniformVector
          /\ pr_pc' = "solving"
          /\ UNCHANGED pr_error

\* The residual after k iterations.
ResidualAfter(k) == residual0 \div (2 ^ k)

\* One round of the solver's loop: the next iterate and its residual.
pagerankIteration ==
  /\ pr_pc = "solving"
  /\ alpha_valid
  /\ iter < max_iter
  /\ ~(iter > 0 /\ residual < tolerance)
  /\ UNCHANGED outside_pagerank
  /\ iter' = iter + 1
  /\ d_pr' = Iterate(iter + 1)
  /\ residual' = ResidualAfter(iter + 1)
  /\ UNCHANGED <<pr_pc, pagerank, pagerank_arg, alpha_valid, tolerance, max_iter,
                 has_guess, residual0, status, pr_allocated, pr_error>>

\* The solver converged when the last residual is below the tolerance.
Converged == iter > 0 /\ residual < tolerance

\* cugraph::pagerank returns: -1 for bad parameters, 0 when the residual is
\* below the tolerance, 1 when max_iter rounds were run without that.
pagerank_return ==
  /\ pr_pc = "solving"
  /\ ~alpha_valid \/ Converged \/ iter >= max_iter
  /\ UNCHANGED outside_pagerank
  /\ status' = IF ~alpha_valid THEN -1 ELSE IF Converged THEN 0 ELSE 1
  /\ pr_pc' = "solved"
  /\ UNCHANGED <<pagerank, pagerank_arg, alpha_valid, tolerance, max_iter,
                 has_guess, residual0, d_pr, residual, iter, pr_allocated,
                 pr_error>>

\* The status switch of part_005 401-406: every non-zero status returns
\* GDF_CUDA_ERROR at once, before the copy of line 408 and the frees.
StatusOutcome(s) ==
  IF s # 0 THEN [error |-> "GDF_CUDA_ERROR", copied |-> FALSE]
  ELSE [error |-> "GDF_SUCCESS", copied |-> TRUE]

\* gdf_pagerank_impl after the solver (part_005 401-414)
gdf_pagerank_impl_end ==
  /\ pr_pc = "solved"
  /\ UNCHANGED outside_pagerank
  /\ LET out == StatusOutcome(status)
     IN /\ pr_error' = out.error
        /\ pagerank' = IF out.copied THEN d_pr ELSE pagerank
        /\ pr_allocated' = IF out.copied THEN {} ELSE pr_allocated
  /\ pr_pc' = "returned"
  /\ UNCHANGED <<pagerank_arg, alpha_valid, tolerance, max_iter, has_guess,
                 residual0, d_pr, residual, iter, status>>

PagerankNext ==
  \/ gdf_pagerank_impl_begin
  \/ pagerankIteration
  \/ pagerank_return
  \/ gdf_pagerank_impl_end

(***************************************************************************)
(* Properties of gdf_pagerank_impl.                                        *)
(***************************************************************************)
\* The call returned after max_iter rounds whose last residual is not below
\* the tolerance.
CapReached ==
  /\ pr_pc = "returned"
  /\ alpha_valid
  /\ pagerank_arg = "ok"
  /\ iter = max_iter
  /\ ~(residual < tolerance)

\* The outcomes that tell the caller the call failed.
HardErrors ==
  {"GDF_CUDA_ERROR", "GDF_INVALID_API_CALL", "GDF_VALIDITY_UNSUPPORTED",
   "GDF_UNSUPPORTED_DTYPE", "GDF_COLUMN_SIZE_MISMATCH"}

\* C12: when the iteration reaches max_iter without the residual dropping
\* below the tolerance, the call returns an outcome that is not one of the
\* hard errors and the caller's pagerank column holds the last iterate.
C12_CapIsWarning ==
  CapReached =>
    /\ pr_error \notin HardErrors
    /\ pagerank = Iterate(max_iter)

\* A call that converged returns GDF_SUCCESS with the last iterate in the
\* caller's column.
ConvergedReturnsIterate ==
  (pr_pc = "returned" /\ status = 0 /\ pagerank_arg = "ok") =>
    /\ pr_error = "GDF_SUCCESS"
    /\ pagerank = Iterate(iter)
    /\ residual < tolerance

(***************************************************************************)
(* Part 5: algorithm entry points called by two host threads on one        *)
(* gdf_graph.  The entry points take no lock; a thread runs one statement  *)
(* group of its call at a time, and the graph object is shared.            *)
(*   gdf_louvain                cugraph.cu 478-521                         *)
(*   gdf_degree                 cugraph.cu 380-413                         *)
(*   gdf_pagerank, gdf_bfs      part_005 482-526                           *)
(*   gdf_add_adj_list(_impl)    cugraph.cu 241-278, 416-433                *)
(*   gdf_add_transpose(_impl)   part_005 312-355, 438-458                  *)
(***************************************************************************)
Threads == {1, 2}
Algorithms == {"gdf_pagerank", "gdf_bfs", "gdf_louvain", "gdf_degree"}

\* A gdf_column after `new gdf_column`: no field has been written.
UninitializedCol ==
  [data |-> 0, size |-> 0, dtype |-> "uninitialized", null_count |-> 0]

\* A gdf_adj_list after `new gdf_adj_list`: the members point nowhere.
NewedAdjList ==
  [present |-> TRUE, offsets |-> NullCol, indices |-> NullCol,
   edge_data |-> NullCol, ownership |-> 0]

\* A representation whose columns are not all set up.
UnderConstruction(rep) ==
  /\ ~IsNull(rep)
  /\ \/ rep.offsets.dtype \in {"nullptr", "uninitialized"}
     \/ rep.indices.dtype \in {"nullptr", "uninitialized"}

\* The graphs the threads are started on: an edge list or an adjacency list
\* attached by a view function.
ThreadGraphs ==
  {[edgeList |-> ViewedEdgeList(<<>>, in).rep, adjList |-> NullRep,
    heap |-> ViewedEdgeList(<<>>, in).heap] : in \in SingleEdgeLists}
  \cup
  {[edgeList |-> NullRep, adjList |-> ViewedAdjList(<<>>, in).rep,
    heap |-> ViewedAdjList(<<>>, in).heap] : in \in SingleEdgeAdjLists}

ThreadsInit ==
  /\ \E g \in ThreadGraphs :
       /\ heap = g.heap
       /\ edgeList = g.edgeList
       /\ adjList = g.adjList
  /\ transposedAdjList = NullRep
  /\ gdf_error = "GDF_SUCCESS"
  /\ last_call = "none"
  /\ th_alg \in [Threads -> Algorithms]
  /\ th_pc = [t \in Threads |-> "entry"]
  /\ th_result = [t \in Threads |-> "running"]
  /\ modified_by = {}
  /\ observed_partial = {}
  /\ adj_builders = <<>>
  /\ transposed_builders = <<>>

\* No thread calls an algorithm, for the specifications of the other parts.
ThreadsIdle ==
  /\ th_alg = [t \in Threads |-> "none"]
  /\ th_pc = [t \in Threads |-> "idle"]
  /\ th_result = [t \in Threads |-> "running"]
  /\ modified_by = {}
  /\ observed_partial = {}
  /\ adj_builders = <<>>
  /\ transposed_builders = <<>>

Goto(t, label) == th_pc' = [th_pc EXCEPT ![t] = label]
ThreadReturn(t, err) ==
  /\ th_result' = [th_result EXCEPT ![t] = err]
  /\ th_pc' = [th_pc EXCEPT ![t] = "returned"]

\* The first GDF_REQUIRE of the entry point (cugraph.cu 479, 385; part_005
\* 488, 504).
algorithm_entry(t) ==
  /\ th_pc[t] = "entry"
  /\ UNCHANGED outside_threads
  /\ UNCHANGED <<graph_vars, th_alg, modified_by, observed_partial, adj_builders,
                 transposed_builders>>
  /\ IF th_alg[t] = "gdf_degree"
     THEN IF IsNull(adjList) /\ IsNull(transposedAdjList)
          THEN ThreadReturn(t, "GDF_INVALID_API_CALL")
          ELSE Goto(t, "degree_read") /\ UNCHANGED th_result
     ELSE IF IsNull(adjList) /\ IsNull(edgeList)
          THEN ThreadReturn(t, "GDF_INVALID_API_CALL")
          ELSE Goto(t, "add_adj_list") /\ UNCHANGED th_result

\* gdf_add_adj_list up to the call of the impl (cugraph.cu 417-431)
gdf_add_adj_list_entry(t) ==
  /\ th_pc[t] = "add_adj_list"
  /\ UNCHANGED outside_threads
  /\ UNCHANGED <<graph_vars, th_alg, modified_by, observed_partial, adj_builders,
                 transposed_builders>>
  /\ IF ~IsNull(adjList)
     THEN Goto(t, "read_adj_list") /\ UNCHANGED th_result
     ELSE IF IsNull(edgeList)
     THEN ThreadReturn(t, "GDF_INVALID_API_CALL")
     ELSE IF edgeList.src_indices.dtype # "GDF_INT32"
     THEN ThreadReturn(t, "GDF_UNSUPPORTED_DTYPE")
     ELSE Goto(t, "adj_impl") /\ UNCHANGED th_result

\* gdf_add_adj_list_impl, lines 243-245: the test of graph->adjList
gdf_add_adj_list_impl_check(t) ==
  /\ th_pc[t] = "adj_impl"
  /\ UNCHANGED outside_threads
  /\ UNCHANGED <<graph_vars, th_alg, th_result, modified_by, observed_partial,
                 adj_builders, transposed_builders>>
  /\ IF IsNull(adjList) THEN Goto(t, "adj_new") ELSE Goto(t, "read_adj_list")

\* line 246: the new gdf_adj_list is stored into the graph
gdf_add_adj_list_impl_new(t) ==
  /\ th_pc[t] = "adj_new"
  /\ UNCHANGED outside_threads
  /\ UNCHANGED <<heap, edgeList, transposedAdjList, gdf_error, last_call, th_alg,
                 th_result, observed_partial, adj_builders, transposed_builders>>
  /\ adjList' = NewedAdjList
  /\ modified_by' = modified_by \cup {t}
  /\ Goto(t, "adj_columns")

\* lines 247-249: the two new gdf_column and the ownership tag, written
\* through graph->adjList
gdf_add_adj_list_impl_columns(t) ==
  /\ th_pc[t] = "adj_columns"
  /\ UNCHANGED outside_threads
  /\ UNCHANGED <<heap, edgeList, transposedAdjList, gdf_error, last_call, th_alg,
                 th_result, observed_partial, adj_builders, transposed_builders>>
  /\ adjList' = [adjList EXCEPT !.offsets = UninitializedCol,
                                !.indices = UninitializedCol,
                                !.ownership = 1]
  /\ modified_by' = modified_by \cup {t}
  /\ Goto(t, "adj_convert")

\* lines 251-276: the conversion and the gdf_column_view calls
gdf_add_adj_list_impl_convert(t) ==
  /\ th_pc[t] = "adj_convert"
  /\ UNCHANGED outside_threads
  /\ UNCHANGED <<edgeList, transposedAdjList, gdf_error, last_call, th_alg,
                 th_result, observed_partial, transposed_builders>>
  /\ LET built == gdf_add_adj_list_impl(heap, edgeList)
     IN /\ heap' = built.heap
        /\ adjList' = built.rep
  /\ adj_builders' = Append(adj_builders, t)
  /\ modified_by' = modified_by \cup {t}
  /\ Goto(t, "read_adj_list")

\* The reads of graph->adjList->offsets and ->indices after gdf_add_adj_list
\* returned (cugraph.cu 484-488; part_005 493-494, 508-516).
read_adj_list(t) ==
  /\ th_pc[t] = "read_adj_list"
  /\ UNCHANGED outside_threads
  /\ UNCHANGED <<graph_vars, th_alg, modified_by, adj_builders, transposed_builders>>
  /\ observed_partial' = IF UnderConstruction(adjList)
                         THEN observed_partial \cup {t} ELSE observed_partial
  /\ IF ~UnderConstruction(adjList) /\ adjList.offsets.dtype # "GDF_INT32"
     THEN ThreadReturn(t, "GDF_UNSUPPORTED_DTYPE")
     ELSE IF th_alg[t] = "gdf_pagerank"
     THEN Goto(t, "pagerank_impl") /\ UNCHANGED th_result
     ELSE ThreadReturn(t, "GDF_SUCCESS")

\* gdf_pagerank_impl, part_005 364-381, and gdf_add_transpose up to the
\* call of the impl (443-456)
gdf_pagerank_impl_entry(t) ==
  /\ th_pc[t] = "pagerank_impl"
  /\ UNCHANGED outside_threads
  /\ UNCHANGED <<graph_vars, th_alg, modified_by, observed_partial, adj_builders,
                 transposed_builders>>
  /\ IF IsNull(edgeList)
     THEN ThreadReturn(t, "GDF_VALIDITY_UNSUPPORTED")
     ELSE IF ~IsNull(transposedAdjList)
     THEN Goto(t, "read_transposed") /\ UNCHANGED th_result
     ELSE Goto(t, "transpose_impl") /\ UNCHANGED th_result

\* gdf_add_transpose_impl, part_005 314-316: the test of
\* graph->transposedAdjList
gdf_add_transpose_impl_check(t) ==
  /\ th_pc[t] = "transpose_impl"
  /\ UNCHANGED outside_threads
  /\ UNCHANGED <<graph_vars, th_alg, th_result, modified_by, observed_partial,
                 adj_builders, transposed_builders>>
  /\ IF IsNull(transposedAdjList)
     THEN Goto(t, "transpose_new") ELSE Goto(t, "read_transposed")

\* part_005 317: the new gdf_adj_list is stored into the graph
gdf_add_transpose_impl_new(t) ==
  /\ th_pc[t] = "transpose_new"
  /\ UNCHANGED outside_threads
  /\ UNCHANGED <<heap, edgeList, adjList, gdf_error, last_call, th_alg,
                 th_result, observed_partial, adj_builders, transposed_builders>>
  /\ transposedAdjList' = NewedAdjList
  /\ modified_by' = modified_by \cup {t}
  /\ Goto(t, "transpose_columns")

\* part_005 318-320: the two new gdf_column and the ownership tag
gdf_add_transpose_impl_columns(t) ==
  /\ th_pc[t] = "transpose_columns"
  /\ UNCHANGED outside_threads
  /\ UNCHANGED <<heap, edgeList, adjList, gdf_error, last_call, th_alg,
                 th_result, observed_partial, adj_builders, transposed_builders>>
  /\ transposedAdjList' = [transposedAdjList EXCEPT !.offsets = UninitializedCol,
                                                    !.indices = UninitializedCol,
                                                    !.ownership = 1]
  /\ modified_by' = modified_by \cup {t}
  /\ Goto(t, "transpose_convert")

\* part_005 322-353: the conversion and the gdf_column_view calls
gdf_add_transpose_impl_convert(t) ==
  /\ th_pc[t] = "transpose_convert"
  /\ UNCHANGED outside_threads
  /\ UNCHANGED <<edgeList, adjList, gdf_error, last_call, th_alg,
                 th_result, observed_partial, adj_builders>>
  /\ LET built == gdf_add_transposed_adj_list_impl(heap, edgeList)
     IN /\ heap' = built.heap
        /\ transposedAdjList' = built.rep
  /\ transposed_builders' = Append(transposed_builders, t)
  /\ modified_by' = modified_by \cup {t}
  /\ Goto(t, "read_transposed")

\* The reads of graph->transposedAdjList in gdf_pagerank_impl (part_005
\* 390-399)
read_transposed(t) ==
  /\ th_pc[t] = "read_transposed"
  /\ UNCHANGED outside_threads
  /\ UNCHANGED <<graph_vars, th_alg, modified_by, adj_builders, transposed_builders>>
  /\ observed_partial' = IF UnderConstruction(transposedAdjList)
                         THEN observed_partial \cup {t} ELSE observed_partial
  /\ ThreadReturn(t, "GDF_SUCCESS")

\* gdf_degree, cugraph.cu 386-412: the sizes and columns of adjList when
\* there is one, of transposedAdjList otherwise
gdf_degree_read(t) ==
  /\ th_pc[t] = "degree_read"
  /\ UNCHANGED outside_threads
  /\ UNCHANGED <<graph_vars, th_alg, modified_by, adj_builders, transposed_builders>>
  /\ observed_partial' =
       IF UnderConstruction(IF ~IsNull(adjList) THEN adjList ELSE transposedAdjList)
       THEN observed_partial \cup {t} ELSE observed_partial
  /\ ThreadReturn(t, "GDF_SUCCESS")

ThreadsNext ==
  \/ \E t \in Threads : algorithm_entry(t)
  \/ \E t \in Threads : gdf_add_adj_list_entry(t)
  \/ \E t \in Threads : gdf_add_adj_list_impl_check(t)
  \/ \E t \in Threads : gdf_add_adj_list_impl_new(t)
  \/ \E t \in Threads : gdf_add_adj_list_impl_columns(t)
  \/ \E t \in Threads : gdf_add_adj_list_impl_convert(t)
  \/ \E t \in Threads : read_adj_list(t)
  \/ \E t \in Threads : gdf_pagerank_impl_entry(t)
  \/ \E t \in Threads : gdf_add_transpose_impl_check(t)
  \/ \E t \in Threads : gdf_add_transpose_impl_new(t)
  \/ \E t \in Threads : gdf_add_transpose_impl_columns(t)
  \/ \E t \in Threads : gdf_add_transpose_impl_convert(t)
  \/ \E t \in Threads : read_transposed(t)
  \/ \E t \in Threads : gdf_degree_read(t)

(***************************************************************************)
(* Properties of concurrent invocations.                                   *)
(***************************************************************************)
\* C16: with two algorithm invocations running concurrently on one graph
\* object, no invocation writes to the graph, none reads a representation
\* that is under construction, and no representation is built twice.
C16_ConcurrentInvocationsSafe ==
  /\ modified_by = {}
  /\ observed_partial = {}
  /\ Len(adj_builders) <= 1
  /\ Len(transposed_builders) <= 1

\* The parts of C16 one by one.
C16_NoPartialRead == observed_partial = {}
C16_NoDoubleBuild == Len(adj_builders) <= 1 /\ Len(transposed_builders) <= 1

\* On a graph that was given its adjacency list by gdf_adj_list_view the
\* invocations write nothing and read only finished columns.
ViewedAdjListReadOnly ==
  IsNull(edgeList) => (modified_by = {} /\ observed_partial = {})

(***************************************************************************)
(* Part 6: the degree buckets of a graph view and the worker kernels that  *)
(* apply an operator to the edges of a bucket's vertices                   *)
(* (worker_kernels.cuh, src/unnamed/part_005 709-826).                     *)
(*                                                                         *)
(* vertex_binning.cuh, which fills the buckets, is not among the sources:  *)
(* the bucketing follows the contract of the specification, exponential    *)
(* degree ranges [0,1), [1,2), [2,4), ... and a last bucket that holds all *)
(* remaining degrees.  The workers are the code's.  A thread block runs as *)
(* one step; the operator is the caller's, the model records the           *)
(* <<source, edge_index>> pairs it is applied to.                          *)
(***************************************************************************)
NumLocalVertices == 3
EdgeIndexBits == 8     \* width of the edge index type ET (32 in the build)
WarpSize == 2          \* threads of a warp (32 on the device)
LargeBlockCount == 2   \* block_count of large_vertex_worker (1024 in the code)
NumberBins == 4        \* the fixed number of degree buckets

BucketedVertices == 0 .. NumLocalVertices - 1
Buckets == 0 .. NumberBins - 1
MaxEdgeIndex == 2 ^ (EdgeIndexBits - 1) - 1

\* Conversion of an arithmetic result to the signed type ET.
ToET(x) ==
  ((x + 2 ^ (EdgeIndexBits - 1)) % (2 ^ EdgeIndexBits)) - 2 ^ (EdgeIndexBits - 1)

\* A block size of the code, in units of the model's warp.
BlockSize(threads) == (threads \div 32) * WarpSize

\* The out-degrees the vertices of the graph views are drawn from: one per
\* bucket, the last one close to the largest edge count ET can hold.
DegreeChoices == {0, 1, 3, MaxEdgeIndex - 7}

NoKernel == [name |-> "none"]
NoCall == [worker |-> "none"]

RECURSIVE PrefixSum(_, _)
PrefixSum(deg, k) == IF k = 0 THEN 0 ELSE PrefixSum(deg, k - 1) + deg[k - 1]

\* A CSR view of NumLocalVertices vertices whose number_of_edges fits ET.
WorkersInit ==
  /\ \E deg \in [BucketedVertices -> DegreeChoices] :
       /\ PrefixSum(deg, NumLocalVertices) <= MaxEdgeIndex
       /\ csr_offsets = [i \in 1 .. NumLocalVertices + 1 |-> PrefixSum(deg, i - 1)]
  /\ bucket_vertices = [b \in Buckets |-> <<>>]
  /\ wk_pc = "binning"
  /\ wk_call = NoCall
  /\ kernel = NoKernel
  /\ blocks_pending = {}
  /\ kernel_status = "ok"
  /\ op_once = {}
  /\ op_again = {}

WorkersIdle ==
  /\ csr_offsets = <<0>>
  /\ bucket_vertices = <<>>
  /\ wk_pc = "idle"
  /\ wk_call = NoCall
  /\ kernel = NoKernel
  /\ blocks_pending = {}
  /\ kernel_status = "ok"
  /\ op_once = {}
  /\ op_again = {}

\* graph.offsets()[v]
offsets(v) == csr_offsets[v + 1]

OutDegree(v) == offsets(v + 1) - offsets(v)

\* Number of binary digits of a degree: 0 for 0, i + 1 for [2^i, 2^(i+1)).
RECURSIVE BitLength(_)
BitLength(d) == IF d = 0 THEN 0 ELSE 1 + BitLength(d \div 2)

\* A variant that takes the exponent itself as the bucket number.
BucketOf_exponent(d) ==
  IF d = 0 THEN 0 ELSE Min2(BitLength(d) - 1, NumberBins - 1)

\* The bucket of a degree: [0,1), [1,2), [2,4), ..., the last one unbounded.
BucketOf(d) == Min2(BitLength(d), NumberBins - 1)

\* The bucketer classifies one more local vertex: it joins the vertex list
\* of the bucket of its out-degree.  The order inside a list is not fixed.
classify_vertex(v) ==
  /\ wk_pc = "binning"
  /\ \A b \in Buckets : v \notin Range(bucket_vertices[b])
  /\ bucket_vertices' =
       [bucket_vertices EXCEPT ![BucketOf(OutDegree(v))] = Append(@, v)]
  /\ wk_pc' =
       IF \A u \in BucketedVertices \ {v} :
            \E b \in Buckets : u \in Range(bucket_vertices[b])
       THEN "ready" ELSE "binning"
  /\ UNCHANGED <<csr_offsets, wk_call, kernel, blocks_pending, kernel_status,
                 op_once, op_again>>
  /\ UNCHANGED outside_workers

\* The DegreeBucket the workers are handed.
DegreeBucket(b) ==
  [vertexIds |-> bucket_vertices[b],
   numberOfVertices |-> Len(bucket_vertices[b]),
   ceilLogDegreeEnd |-> IF b = NumberBins - 1 THEN EdgeIndexBits ELSE b + 1]

\* The stream takes a worker call once the buckets are complete and the
\* previous kernel has finished.
StreamIdle ==
  \/ wk_pc = "ready"
  \/ wk_pc = "launched" /\ blocks_pending = {} /\ kernel_status = "ok"

\* kernel<<<block_count, block_size, 0, stream>>>(graph, vertex_ids,
\* number_of_vertices, op)
Launch(name, block_count, block_size, bucket) ==
  [name |-> name, gridDim |-> block_count, blockDim |-> block_size,
   vertex_ids |-> bucket.vertexIds,
   number_of_vertices |-> bucket.numberOfVertices]

\* blockIdx.x of the thread blocks of a launch.
Blocks(k) == IF k = NoKernel THEN {} ELSE 0 .. k.gridDim - 1

\* Every worker call starts a new history of operator applications.
large_vertex_worker(b) ==
  /\ StreamIdle
  /\ LET bucket == DegreeBucket(b)
         block_size == BlockSize(32)
         block_count == LargeBlockCount
     IN kernel' = IF bucket.numberOfVertices # 0
                  THEN Launch("kernel_per_vertex_worker_weightless",
                              block_count, block_size, bucket)
                  ELSE NoKernel
  /\ blocks_pending' = Blocks(kernel')
  /\ wk_call' = [worker |-> "large_vertex_worker", bucket |-> b]
  /\ wk_pc' = "launched"
  /\ kernel_status' = "ok"
  /\ op_once' = {}
  /\ op_again' = {}
  /\ UNCHANGED <<csr_offsets, bucket_vertices>>
  /\ UNCHANGED outside_workers

medium_vertex_worker(b) ==
  /\ StreamIdle
  /\ LET bucket == DegreeBucket(b)
         block_size == BlockSize(1024)
         block_count == bucket.numberOfVertices
     IN kernel' = IF block_count # 0
                  THEN Launch("block_per_vertex_worker_weightless",
                              block_count, block_size, bucket)
                  ELSE NoKernel
  /\ blocks_pending' = Blocks(kernel')
  /\ wk_call' = [worker |-> "medium_vertex_worker", bucket |-> b]
  /\ wk_pc' = "launched"
  /\ kernel_status' = "ok"
  /\ op_once' = {}
  /\ op_again' = {}
  /\ UNCHANGED <<csr_offsets, bucket_vertices>>
  /\ UNCHANGED outside_workers

small_vertex_worker(b) ==
  /\ StreamIdle
  /\ LET bucket == DegreeBucket(b)
         block_size == 
           IF bucket.ceilLogDegreeEnd < 6 THEN BlockSize(32)
           ELSE IF bucket.ceilLogDegreeEnd < 8 THEN BlockSize(64)
           ELSE IF bucket.ceilLogDegreeEnd < 10 THEN BlockSize(128)
           ELSE BlockSize(512)
         block_count == bucket.numberOfVertices
     IN kernel' = IF block_count # 0
                  THEN Launch("block_per_vertex_worker_weightless",
                              block_count, block_size, bucket)
                  ELSE NoKernel
  /\ blocks_pending' = Blocks(kernel')
  /\ wk_call' = [worker |-> "small_vertex_worker", bucket |-> b]
  /\ wk_pc' = "launched"
  /\ kernel_status' = "ok"
  /\ op_once' = {}
  /\ op_again' = {}
  /\ UNCHANGED <<csr_offsets, bucket_vertices>>
  /\ UNCHANGED outside_workers

\* The for loop of both kernels: the values of edge_index the operator is
\* applied for.  edge_index += stride is computed in ET; an edge_index that
\* has wrapped is negative, still below offset_end, and the read of
\* graph.indices()[edge_index] is outside the array: the list ends with it.
RECURSIVE EdgeLoop(_, _, _)
EdgeLoop(edge_index, offset_end, stride) ==
  IF ~(edge_index < offset_end) THEN <<>>
  ELSE IF edge_index < 0 THEN <<edge_index>>
  ELSE <<edge_index>> \o EdgeLoop(ToET(edge_index + stride), offset_end, stride)

\* The operator applications of the edge loop on one source vertex.
EdgeCalls(source, tid, stride) ==
  LET loop == EdgeLoop(ToET(tid + offsets(source)), offsets(source + 1), stride)
  IN [i \in DOMAIN loop |-> <<source, loop[i]>>]

OutOfArray(calls) == \E i \in DOMAIN calls : calls[i][2] < 0

\* One thread of kernel_per_vertex_worker_weightless, from
\* current_vertex_index on: every thread of the grid visits every vertex of
\* the bucket and takes the edges tid, tid + stride, ... of each.
RECURSIVE VertexLoop(_, _, _, _)
VertexLoop(k, current_vertex_index, tid, stride) ==
  IF ~(current_vertex_index < k.number_of_vertices) THEN <<>>
  ELSE LET source == k.vertex_ids[current_vertex_index + 1]
           calls == EdgeCalls(source, tid, stride)
       IN IF OutOfArray(calls) THEN calls
          ELSE calls \o VertexLoop(k, current_vertex_index + 1, tid, stride)

kernel_per_vertex_worker_weightless(k, blockIdx, threadIdx) ==
  LET tid == ToET(threadIdx + (blockIdx * k.blockDim))
      stride == ToET(k.blockDim * k.gridDim)
  IN VertexLoop(k, 0, tid, stride)

\* One thread of block_per_vertex_worker_weightless: block blockIdx takes
\* the vertex number blockIdx of the bucket, its threads the edges
\* threadIdx, threadIdx + blockDim, ...
block_per_vertex_worker_weightless(k, blockIdx, threadIdx) ==
  LET current_vertex_index == blockIdx
  IN IF current_vertex_index >= k.number_of_vertices THEN <<>>
     ELSE EdgeCalls(k.vertex_ids[current_vertex_index + 1], threadIdx,
                    k.blockDim)

ThreadCalls(k, blockIdx, threadIdx) ==
  IF k.name = "kernel_per_vertex_worker_weightless"
  THEN kernel_per_vertex_worker_weightless(k, blockIdx, threadIdx)
  ELSE block_per_vertex_worker_weightless(k, blockIdx, threadIdx)

\* The operator applications of the threads threadIdx .. blockDim - 1 of a
\* block.
RECURSIVE BlockCalls(_, _, _)
BlockCalls(k, blockIdx, threadIdx) ==
  IF threadIdx >= k.blockDim THEN <<>>
  ELSE ThreadCalls(k, blockIdx, threadIdx) \o BlockCalls(k, blockIdx, threadIdx + 1)

\* The pairs of a list of applications that were applied before, in the
\* history or earlier in the list.
Repeated(calls, once) ==
  {calls[i] : i \in {j \in DOMAIN calls :
                       \/ calls[j] \in once
                       \/ \E h \in 1 .. j - 1 : calls[h] = calls[j]}}

\* A thread block of the kernel in the stream runs.  A thread whose
\* edge_index has left the array either stops the kernel with an illegal
\* address, or reads whatever lies before the array, applies the operator
\* to it and keeps looping: the kernel never completes.
run_block(blockIdx) ==
  /\ wk_pc = "launched"
  /\ blockIdx \in blocks_pending
  /\ LET calls == BlockCalls(kernel, blockIdx, 0)
     IN \E outcome \in (IF OutOfArray(calls)
                        THEN {"illegal_address", "diverged"} ELSE {"ok"}) :
          LET made == IF outcome = "illegal_address"
                      THEN SelectSeq(calls, LAMBDA c : c[2] >= 0)
                      ELSE calls
          IN /\ op_once' = op_once \cup Range(made)
             /\ op_again' = op_again \cup Repeated(made, op_once)
             /\ kernel_status' = IF outcome = "ok" THEN kernel_status ELSE outcome
             /\ blocks_pending' =
                  IF outcome = "illegal_address" THEN {}
                  ELSE blocks_pending \ {blockIdx}
  /\ UNCHANGED <<csr_offsets, bucket_vertices, wk_pc, wk_call, kernel>>
  /\ UNCHANGED outside_workers

WorkersNext ==
  \/ \E v \in BucketedVertices : classify_vertex(v)
  \/ \E b \in Buckets : large_vertex_worker(b)
  \/ \E b \in Buckets : medium_vertex_worker(b)
  \/ \E b \in Buckets : small_vertex_worker(b)
  \/ \E blockIdx \in 0 .. Max2(LargeBlockCount, NumLocalVertices) - 1 :
       run_block(blockIdx)

(***************************************************************************)
(* Properties of part 6.                                                   *)
(***************************************************************************)
\* The degree range of a bucket, as the specification states it.
InDegreeRange(d, b) ==
  IF b = 0 THEN d = 0
  ELSE IF b = NumberBins - 1 THEN d >= 2 ^ (b - 1)
  ELSE 2 ^ (b - 1) <= d /\ d < 2 ^ b

Occurrences(s, v) == Cardinality({i \in DOMAIN s : s[i] = v})

BucketsComplete == wk_pc \in {"ready", "launched"}

BucketEdges ==
  UNION {{<<v, e>> : e \in offsets(v) .. offsets(v + 1) - 1} :
           v \in Range(bucket_vertices[wk_call.bucket])}

KernelEnded == wk_pc = "launched" /\ blocks_pending = {}

ExactlyOncePerEdge ==
  /\ op_again = {}
  /\ op_once \subseteq BucketEdges
  /\ KernelEnded => (op_once = BucketEdges /\ kernel_status = "ok")

EmptyBucketLaunchesNothing ==
  bucket_vertices[wk_call.bucket] = <<>> => (kernel = NoKernel /\ op_once = {})

\* C20: a worker called on a bucket applies the operator exactly once to
\* every edge position of every vertex of the bucket and to nothing else,
\* whatever the worker and its grid; on an empty bucket it launches no
\* kernel and applies the operator zero times.
C20_WorkersApplyOncePerEdge ==
  wk_pc = "launched" => (ExactlyOncePerEdge /\ EmptyBucketLaunchesNothing)

\* The stride of the edge loop of the kernel in the stream.
Stride ==
  IF kernel.name = "kernel_per_vertex_worker_weightless"
  THEN kernel.blockDim * kernel.gridDim ELSE kernel.blockDim

\* No edge_index of the kernel leaves the range of ET.
IndexFitsET ==
  kernel # NoKernel =>
    offsets(NumLocalVertices) + Stride - 1 <= MaxEdgeIndex

\* The same statement for the calls in which edge_index stays in ET.
C20_OncePerEdgeWithinET ==
  (wk_pc = "launched" /\ IndexFitsET) =>
    (ExactlyOncePerEdge /\ EmptyBucketLaunchesNothing)

\* The empty-bucket clause alone.
C20_EmptyBucket == wk_pc = "launched" => EmptyBucketLaunchesNothing

\* Workers that ended after applying the operator to every edge of a bucket
\* of two vertices, and a worker called on an empty bucket.
C20_WitnessCompleted ==
  /\ KernelEnded /\ kernel # NoKernel /\ kernel_status = "ok"
  /\ Cardinality(op_once) >= 3
  /\ op_once = BucketEdges

C20_WitnessOutOfArray ==
  /\ KernelEnded /\ kernel_status # "ok"

(***************************************************************************)
(* Part 7: coarsen_graph and the checker of its test                       *)
(* (src/cpp/tests/experimental/coarsen_graph_test.cpp).                    *)
(*                                                                         *)
(* coarsen_graph itself is not among the sources; it is taken to return    *)
(* the quotient of the graph by the labels, coarse vertices numbered in    *)
(* label order.  The test's host copies and check_coarsened_graph_results  *)
(* are the code's.  Weights are small integers, for which the checker's    *)
(* relative tolerance of 1e-4 accepts equal weights only.                  *)
(***************************************************************************)
NumOrgVertices == 3
MaxOrgEdges == 3

\* cugraph::experimental::invalid_vertex_id<vertex_t>::value
invalid_vertex_id == -1

OrgVertices == 0 .. NumOrgVertices - 1

\* Element i of a C array
At(s, i) == s[i + 1]

\* The weight the input file gives an edge: 1 everywhere, or a weight that
\* depends on the endpoints.
OrgWeight(sel, e) == IF sel = 1 THEN 1 ELSE e[1] + e[2] + 1

\* The CSR arrays of a graph of n vertices without multi-edges.
CSRGraph(n, E, weight, weighted) ==
  LET codes == SetToSortedSeq({e[1] * n + e[2] : e \in E})
      edge(k) == <<codes[k] \div n, codes[k] % n>>
  IN [num_vertices |-> n,
      offsets |-> [i \in 1 .. n + 1 |-> Cardinality({e \in E : e[1] < i - 1})],
      indices |-> [k \in 1 .. Len(codes) |-> edge(k)[2]],
      weights |-> IF weighted THEN [k \in 1 .. Len(codes) |-> weight[edge(k)]]
                  ELSE <<>>,
      weighted |-> weighted]

NoGraph == [num_vertices |-> 0, offsets |-> <<0>>, indices |-> <<>>,
            weights |-> <<>>, weighted |-> FALSE]

\* graph_view of the graph read from the file
OrgGraph ==
  CSRGraph(NumOrgVertices, org_edges,
           [e \in org_edges |-> OrgWeight(org_weight_sel, e)],
           org_weight_sel # 0)

CoarsenInit ==
  /\ org_edges \in {E \in SUBSET (OrgVertices \X OrgVertices) :
                      Cardinality(E) <= MaxOrgEdges}
  /\ org_weight_sel \in {0, 1, 2}
  /\ h_labels \in [1 .. NumOrgVertices -> OrgVertices]
  /\ coarse_graph = NoGraph
  /\ coarse_vertices_to_labels = <<>>
  /\ cg_pc = "called"
  /\ verdict = "none"

CoarsenIdle ==
  /\ org_edges = {}
  /\ org_weight_sel = 0
  /\ h_labels = <<>>
  /\ coarse_graph = NoGraph
  /\ coarse_vertices_to_labels = <<>>
  /\ cg_pc = "idle"
  /\ verdict = "none"

RECURSIVE SumWeights(_, _)
SumWeights(S, weight) ==
  IF S = {} THEN 0
  ELSE LET e == CHOOSE e \in S : TRUE
       IN weight[e] + SumWeights(S \ {e}, weight)

\* The quotient of the graph by the labels: one coarse vertex per distinct
\* label, in label order; an edge between two coarse vertices when some
\* edge joins their members, its weight the sum of those edges' weights.
Quotient(E, sel, labels) ==
  LET distinct == SetToSortedSeq(Range(labels))
      coarse(v) == CHOOSE c \in 0 .. Len(distinct) - 1 : At(distinct, c) = At(labels, v)
      CE == {<<coarse(e[1]), coarse(e[2])>> : e \in E}
      merged(ce) == {e \in E : <<coarse(e[1]), coarse(e[2])>> = ce}
  IN [graph |-> CSRGraph(Len(distinct), CE,
                         [ce \in CE |->
                            SumWeights(merged(ce), [e \in E |-> OrgWeight(sel, e)])],
                         sel # 0),
      labels |-> distinct]

\* std::tie(coarse_graph, coarse_vertices_to_labels) = coarsen_graph(handle,
\* graph_view, d_labels.begin())
coarsen_graph ==
  /\ cg_pc = "called"
  /\ LET q == Quotient(org_edges, org_weight_sel, h_labels)
     IN /\ coarse_graph' = q.graph
        /\ coarse_vertices_to_labels' = q.labels
  /\ cg_pc' = "coarsened"
  /\ UNCHANGED <<org_edges, org_weight_sel, h_labels, verdict>>
  /\ UNCHANGED outside_coarsen

\* run_current_test, the copies to the host.  The vector
\* h_coarse_vertices_to_labels is constructed with its own size(), read
\* before the vector exists: the size is whatever the memory holds.  With
\* at least coarse_vertices_to_labels.size() elements the copy fits; with
\* fewer, update_host writes past the end of the vector; a size beyond
\* max_size() makes the constructor throw.
update_host ==
  /\ cg_pc = "coarsened"
  /\ \E outcome \in {"fits", "out_of_bounds", "length_error"} :
       IF outcome = "fits"
       THEN cg_pc' = "copied" /\ verdict' = verdict
       ELSE cg_pc' = "checked" /\ verdict' = outcome
  /\ UNCHANGED <<org_edges, org_weight_sel, h_labels, coarse_graph,
                 coarse_vertices_to_labels>>
  /\ UNCHANGED outside_coarsen

\* std::sort of a vector of tuples
PairLess(p, q) == p[1] < q[1] \/ (p[1] = q[1] /\ p[2] < q[2])

RECURSIVE SortPairs(_)
SortPairs(s) ==
  IF s = <<>> THEN <<>>
  ELSE LET i == CHOOSE i \in DOMAIN s : \A j \in DOMAIN s : ~PairLess(s[j], s[i])
       IN <<s[i]>> \o SortPairs(SubSeq(s, 1, i - 1) \o SubSeq(s, i + 1, Len(s)))

\* unique_labels: org_labels sorted, duplicates removed
unique_labels(org_labels) == SetToSortedSeq(Range(org_labels))

\* The members of a label, as label_org_vertex_pairs lists them.
LabelMembers(org_labels, label) ==
  SetToSortedSeq({v \in 0 .. Len(org_labels) - 1 : At(org_labels, v) = label})

\* label_to_coarse_vertex_map[label]: the last coarse vertex stored under
\* the label; operator[] inserts 0 for a label that is not in the map.
label_to_coarse_vertex_map(coarse_vertex_labels, label) ==
  LET holders == {i \in 0 .. Len(coarse_vertex_labels) - 1 :
                    At(coarse_vertex_labels, i) = label}
  IN IF holders = {} THEN 0
     ELSE CHOOSE i \in holders : \A j \in holders : j <= i

\* The <<coarse_nbr, org_weight>> tuples pushed for one member vertex (the
\* weight is 0 in the unweighted branch, which keeps the neighbours only).
VertexPairs(org, org_labels, coarse_vertex_labels, org_vertex) ==
  [n \in 1 .. At(org.offsets, org_vertex + 1) - At(org.offsets, org_vertex) |->
     LET k == At(org.offsets, org_vertex) + n - 1
         org_nbr == At(org.indices, k)
     IN <<label_to_coarse_vertex_map(coarse_vertex_labels, At(org_labels, org_nbr)),
          IF org.weighted THEN At(org.weights, k) ELSE 0>>]

RECURSIVE MemberPairs(_, _, _, _)
MemberPairs(org, org_labels, coarse_vertex_labels, members) ==
  IF members = <<>> THEN <<>>
  ELSE VertexPairs(org, org_labels, coarse_vertex_labels, Head(members))
       \o MemberPairs(org, org_labels, coarse_vertex_labels, Tail(members))

\* The "reduce by key" loop, from position i on: the run's first tuple
\* absorbs the current one when its neighbour equals the current tuple's
\* weight (std::get<0>(start) == std::get<1>(cur)).
RECURSIVE reduce_by_key(_, _, _)
reduce_by_key(pairs, run_start_idx, i) ==
  IF i >= Len(pairs) THEN pairs
  ELSE LET start == At(pairs, run_start_idx)
           cur == At(pairs, i)
       IN IF start[1] = cur[2]
          THEN reduce_by_key(
                 [pairs EXCEPT ![run_start_idx + 1] = <<start[1], start[2] + cur[2]>>,
                               ![i + 1] = <<invalid_vertex_id, cur[2]>>],
                 run_start_idx, i + 1)
          ELSE reduce_by_key(pairs, i, i + 1)

\* coarse_nbr_weight_pairs0 of the weighted branch
coarse_nbr_weight_pairs0(org, org_labels, coarse_vertex_labels, members) ==
  SelectSeq(
    reduce_by_key(
      SortPairs(MemberPairs(org, org_labels, coarse_vertex_labels, members)), 0, 1),
    LAMBDA t : t[1] # invalid_vertex_id)

\* coarse_nbrs0 of the unweighted branch: sorted, duplicates removed
coarse_nbrs0(org, org_labels, coarse_vertex_labels, members) ==
  LET pairs == MemberPairs(org, org_labels, coarse_vertex_labels, members)
  IN SetToSortedSeq({pairs[n][1] : n \in DOMAIN pairs})

\* coarse_nbr_weight_pairs1: coarse_count value-initialised tuples; every
\* edge j of the coarse vertex is stored at i - coarse_offset, i being the
\* number of the label in unique_labels.  A position outside the vector is
\* an out-of-bounds write.
coarse_nbr_weight_pairs1(coarse, i, coarse_vertex) ==
  LET coarse_offset == At(coarse.offsets, coarse_vertex)
      coarse_count == At(coarse.offsets, coarse_vertex + 1) - coarse_offset
      slot == i - coarse_offset
      last == coarse_offset + coarse_count - 1
  IN IF coarse_count = 0 THEN [out_of_bounds |-> FALSE, pairs |-> <<>>]
     ELSE IF slot < 0 \/ slot >= coarse_count
     THEN [out_of_bounds |-> TRUE, pairs |-> <<>>]
     ELSE [out_of_bounds |-> FALSE,
           pairs |-> SortPairs([n \in 1 .. coarse_count |->
                                  IF n = slot + 1
                                  THEN <<At(coarse.indices, last), At(coarse.weights, last)>>
                                  ELSE <<0, 0>>])]

\* coarse_nbrs1: the neighbours of the coarse vertex, sorted
coarse_nbrs1(coarse, coarse_vertex) ==
  LET coarse_offset == At(coarse.offsets, coarse_vertex)
      coarse_count == At(coarse.offsets, coarse_vertex + 1) - coarse_offset
      pairs == SortPairs([n \in 1 .. coarse_count |->
                            <<At(coarse.indices, coarse_offset + n - 1), 0>>])
  IN [n \in DOMAIN pairs |-> pairs[n][1]]

\* ASSERT_TRUE(std::equal(first0, last0, first1)): the second range is read
\* for as many elements as the first one has.
AssertEqual(range0, range1) ==
  IF Len(range0) > Len(range1) THEN "out_of_bounds"
  ELSE IF \A n \in DOMAIN range0 : range0[n] = range1[n] THEN "ok"
  ELSE "assert_failed"

\* One round of the loop over unique_labels (lines 130-221).
CheckLabel(org, org_labels, coarse, coarse_vertex_labels, i) ==
  LET label == At(unique_labels(org_labels), i)
      members == LabelMembers(org_labels, label)
      coarse_vertex == label_to_coarse_vertex_map(coarse_vertex_labels, label)
  IN IF ~org.weighted
     THEN AssertEqual(coarse_nbrs0(org, org_labels, coarse_vertex_labels, members),
                      coarse_nbrs1(coarse, coarse_vertex))
     ELSE LET pairs1 == coarse_nbr_weight_pairs1(coarse, i, coarse_vertex)
          IN IF pairs1.out_of_bounds THEN "out_of_bounds"
             ELSE AssertEqual(
                    coarse_nbr_weight_pairs0(org, org_labels, coarse_vertex_labels,
                                             members),
                    pairs1.pairs)

RECURSIVE CheckLabels(_, _, _, _, _)
CheckLabels(org, org_labels, coarse, coarse_vertex_labels, i) ==
  IF i >= Len(unique_labels(org_labels)) THEN "pass"
  ELSE LET v == CheckLabel(org, org_labels, coarse, coarse_vertex_labels, i)
       IN IF v # "ok" THEN v
          ELSE CheckLabels(org, org_labels, coarse, coarse_vertex_labels, i + 1)

\* std::is_sorted(offsets, offsets + num_vertices)
is_sorted(first, num_vertices) ==
  \A i \in 0 .. num_vertices - 2 : At(first, i) <= At(first, i + 1)

is_valid_vertex(num_vertices, v) == (v >= 0) /\ (v < num_vertices)

\* The assertions of lines 64-95.
LeadingAsserts(org, org_labels, coarse, coarse_vertex_labels) ==
  /\ org.weighted = coarse.weighted
  /\ is_sorted(org.offsets, org.num_vertices)
  /\ \A n \in DOMAIN org.indices : is_valid_vertex(org.num_vertices, org.indices[n])
  /\ is_sorted(coarse.offsets, coarse.num_vertices)
  /\ \A n \in DOMAIN coarse.indices :
       is_valid_vertex(coarse.num_vertices, coarse.indices[n])
  /\ coarse.num_vertices <= org.num_vertices
  /\ Len(unique_labels(org_labels)) = coarse.num_vertices
  /\ Cardinality(Range(coarse_vertex_labels)) = Len(coarse_vertex_labels)
  /\ SetToSortedSeq(Range(coarse_vertex_labels)) = unique_labels(org_labels)

\* check_coarsened_graph_results: "pass" when it returns without a failed
\* assertion.
CheckResult(org, org_labels, coarse, coarse_vertex_labels) ==
  IF ~LeadingAsserts(org, org_labels, coarse, coarse_vertex_labels)
  THEN "assert_failed"
  ELSE CheckLabels(org, org_labels, coarse, coarse_vertex_labels, 0)

check_coarsened_graph_results ==
  /\ cg_pc = "copied"
  /\ verdict' = CheckResult(OrgGraph, h_labels, coarse_graph,
                            coarse_vertices_to_labels)
  /\ cg_pc' = "checked"
  /\ UNCHANGED <<org_edges, org_weight_sel, h_labels, coarse_graph,
                 coarse_vertices_to_labels>>
  /\ UNCHANGED outside_coarsen

CoarsenNext ==
  \/ coarsen_graph
  \/ update_host
  \/ check_coarsened_graph_results

(***************************************************************************)
(* Properties of part 7.                                                   *)
(***************************************************************************)
\* The neighbours, with weights, a CSR graph lists for vertex v.
NeighbourList(g, v) ==
  [n \in 1 .. At(g.offsets, v + 1) - At(g.offsets, v) |->
     LET k == At(g.offsets, v) + n - 1
     IN <<At(g.indices, k), IF g.weighted THEN At(g.weights, k) ELSE 0>>]

\* The coarse graph is the quotient of the input graph by the labels.
IsQuotient ==
  LET cl == coarse_vertices_to_labels
      members(c) == {v \in OrgVertices : At(h_labels, v) = At(cl, c)}
      joining(c, d) == {e \in org_edges : e[1] \in members(c) /\ e[2] \in members(d)}
      list(c) == NeighbourList(coarse_graph, c)
      nbrs(c) == {list(c)[n][1] : n \in DOMAIN list(c)}
  IN /\ Cardinality(Range(cl)) = Len(cl)
     /\ Range(cl) = Range(h_labels)
     /\ coarse_graph.num_vertices = Len(cl)
     /\ Len(cl) <= NumOrgVertices
     /\ \A c \in 0 .. Len(cl) - 1 :
          /\ Cardinality(nbrs(c)) = Len(list(c))
          /\ nbrs(c) = {d \in 0 .. Len(cl) - 1 : joining(c, d) # {}}
          /\ coarse_graph.weighted =>
               \A n \in DOMAIN list(c) :
                 list(c)[n][2] =
                   SumWeights(joining(c, list(c)[n][1]),
                              [e \in org_edges |-> OrgWeight(org_weight_sel, e)])

\* C22: coarsen_graph returns the quotient of the graph by the labels (one
\* coarse vertex per distinct label, duplicate-free neighbour lists, weights
\* of merged edges summed), and the test's checker, which states this,
\* accepts it.
C22_CoarseGraphIsChecked ==
  /\ cg_pc \in {"coarsened", "copied", "checked"} => IsQuotient
  /\ cg_pc = "checked" => verdict = "pass"

\* The quotient half alone.
C22_QuotientReturned ==
  cg_pc \in {"coarsened", "copied", "checked"} => IsQuotient

\* The checker run on arrays that were copied without damage, for an
\* unweighted graph.
C22_UnweightedCheckPasses ==
  (cg_pc = "checked" /\ org_weight_sel = 0) =>
    verdict \in {"pass", "out_of_bounds", "length_error"}

\* The checker has run on a weighted quotient in which two edges were merged.
C22_WitnessMerged ==
  /\ cg_pc = "checked"
  /\ org_weight_sel # 0
  /\ Len(coarse_graph.indices) < Cardinality(org_edges)
  /\ verdict \in {"assert_failed", "out_of_bounds"}

C22_WitnessPass ==
  /\ cg_pc = "checked"
  /\ verdict = "pass"
  /\ Len(coarse_graph.indices) >= 2

(***************************************************************************)
(* Part 8: the algorithm entry points gdf_pagerank (src/unnamed/part_005   *)
(* 482-501) and gdf_degree (src/cpp/src/cugraph.cu 380-413) on the graph   *)
(* object of part 2.  The solver cugraph::pagerank and the kernels         *)
(* degree_offsets / degree_coo are not among the sources; the solver is a  *)
(* fixed number of rounds of the rank propagation in integer arithmetic.   *)
(***************************************************************************)
\* The rank of a vertex before the first round, and the rounds the solver
\* runs before it reports convergence.
RankScale == 12
PagerankRounds == 2

NoDegree == [x |-> -1, data |-> <<>>]
NoColumn == [dtype |-> "nullptr", data |-> <<>>]

AlgorithmsIdle ==
  /\ col_pagerank = NoColumn
  /\ degree = NoDegree

\* gdf_add_adj_list (part_005 418-436) on heap h
AddAdjList(h, el, al) ==
  IF ~IsNull(al) THEN [err |-> "GDF_SUCCESS", heap |-> h, adjList |-> al]
  ELSE IF IsNull(el) THEN [err |-> "GDF_INVALID_API_CALL", heap |-> h, adjList |-> al]
  ELSE IF el.src_indices.dtype # "GDF_INT32"
          \/ (~IsNullCol(el.edge_data)
              /\ el.edge_data.dtype \notin {"GDF_FLOAT32", "GDF_FLOAT64"})
  THEN [err |-> "GDF_UNSUPPORTED_DTYPE", heap |-> h, adjList |-> al]
  ELSE LET built == gdf_add_adj_list_impl(h, el)
       IN [err |-> "GDF_SUCCESS", heap |-> built.heap, adjList |-> built.rep]

\* The number of out-edges of vertex u in a compressed-column structure:
\* the positions of `indices` that name u (HT_matrix_csc_coo).
OutDegreeCSC(indices, u) == Cardinality({p \in DOMAIN indices : indices[p] = u})

\* One round of the rank propagation over the transposed adjacency list:
\* a vertex hands its rank in equal shares to its out-neighbours, a vertex
\* without out-edge (d_leaf_vector) to all m vertices.
PagerankRound(m, csc_offsets, csc_indices, pr) ==
  LET leaves == {u \in 0 .. m - 1 : OutDegreeCSC(csc_indices, u) = 0}
      leaf_share == SumWeights(leaves, [u \in leaves |-> pr[u + 1] \div m])
  IN [i \in 1 .. m |->
        LET column == csc_offsets[i] + 1 .. csc_offsets[i + 1]
        IN leaf_share
           + SumWeights(column,
                        [p \in column |->
                           pr[csc_indices[p] + 1]
                             \div OutDegreeCSC(csc_indices, csc_indices[p])])]

RECURSIVE PagerankRounds_from(_, _, _, _, _)
PagerankRounds_from(m, csc_offsets, csc_indices, pr, rounds) ==
  IF rounds = 0 THEN pr
  ELSE PagerankRounds_from(m, csc_offsets, csc_indices,
                           PagerankRound(m, csc_offsets, csc_indices, pr), rounds - 1)

\* cugraph::pagerank<T, WT>(m, nnz, offsets, indices, d_val, ...) from the
\* uniform start vector (has_guess = false)
cugraph_pagerank(m, csc_offsets, csc_indices) ==
  PagerankRounds_from(m, csc_offsets, csc_indices, [i \in 1 .. m |-> RankScale],
                      PagerankRounds)

\* gdf_pagerank_impl (part_005 357-415) on a pagerank column of m elements
\* whose checks pass, with a solver that converges: the edge list is
\* required (line 364), the transposed adjacency list is added when it is
\* missing (379-381, the outcome of gdf_add_transpose is not looked at) and
\* handed to the solver.
gdf_pagerank_impl(h, el, tr, al, m, ranks) ==
  LET kept == [heap |-> h, edgeList |-> el, transposedAdjList |-> tr, ranks |-> ranks]
  IN IF IsNull(el) THEN [err |-> "GDF_VALIDITY_UNSUPPORTED"] @@ kept
     ELSE LET t == IF IsNull(tr) THEN AddTransposedAdjList(h, el, al, tr)
                   ELSE [err |-> "GDF_SUCCESS"] @@ kept
          IN IF IsNull(t.transposedAdjList)
             THEN [err |-> "NULL_DEREFERENCE"] @@ kept
             ELSE [err |-> "GDF_SUCCESS",
                   heap |-> t.heap,
                   edgeList |-> t.edgeList,
                   transposedAdjList |-> t.transposedAdjList,
                   ranks |-> cugraph_pagerank(
                               m,
                               ColumnValues(t.heap, t.transposedAdjList.offsets),
                               ColumnValues(t.heap, t.transposedAdjList.indices))]

\* The number of vertices of the graph as the caller handed it over; the
\* caller's pagerank column has one element per vertex.
CallerVertices ==
  IF ~IsNull(edgeList)
  THEN Max2(SeqMax(ColumnValues(heap, edgeList.src_indices)),
            SeqMax(ColumnValues(heap, edgeList.dest_indices))) + 1
  ELSE IF ~IsNull(adjList) THEN adjList.offsets.size - 1
  ELSE 0

\* gdf_pagerank (part_005 482-501) with a new, unwritten column of the
\* given dtype
gdf_pagerank ==
  /\ ~ProcessEnded
  /\ Len(heap) < MaxBuffers
  /\ UNCHANGED outside_algorithms
  /\ UNCHANGED degree
  /\ \E dtype \in {"GDF_FLOAT32", "GDF_FLOAT64", "GDF_INT32"} :
       LET fn == "gdf_pagerank"
           a == AddAdjList(heap, edgeList, adjList)
       IN IF IsNull(adjList) /\ IsNull(edgeList)
          THEN /\ Return(fn, "GDF_INVALID_API_CALL")
               /\ col_pagerank' = [dtype |-> dtype, data |-> <<>>]
               /\ UNCHANGED <<heap, edgeList, adjList, transposedAdjList>>
          ELSE IF a.err # "GDF_SUCCESS"
          THEN /\ Return(fn, a.err)
               /\ col_pagerank' = [dtype |-> dtype, data |-> <<>>]
               /\ UNCHANGED <<heap, edgeList, adjList, transposedAdjList>>
          ELSE IF a.adjList.offsets.dtype # "GDF_INT32"
                  \/ a.adjList.indices.dtype # "GDF_INT32"
                  \/ dtype \notin {"GDF_FLOAT32", "GDF_FLOAT64"}
          THEN /\ Return(fn, "GDF_UNSUPPORTED_DTYPE")
               /\ heap' = a.heap
               /\ adjList' = a.adjList
               /\ col_pagerank' = [dtype |-> dtype, data |-> <<>>]
               /\ UNCHANGED <<edgeList, transposedAdjList>>
          ELSE LET r == gdf_pagerank_impl(a.heap, edgeList, transposedAdjList,
                                          a.adjList, CallerVertices, <<>>)
               IN /\ Return(fn, r.err)
                  /\ heap' = r.heap
                  /\ adjList' = a.adjList
                  /\ edgeList' = r.edgeList
                  /\ transposedAdjList' = r.transposedAdjList
                  /\ col_pagerank' = [dtype |-> dtype, data |-> r.ranks]

\* The pagerank test and its variants: a view, optionally the transposed
\* list added by the caller, then gdf_pagerank.
GraphPagerankNext ==
  \/ gdf_edge_list_view
  \/ gdf_adj_list_view
  \/ gdf_add_transpose
  \/ gdf_pagerank

(***************************************************************************)
(* Properties of gdf_pagerank on the graph object.                         *)
(***************************************************************************)
\* The edges of the attached edge list, by position.
EdgeListEdges == [k \in 1 .. Len(Src) |-> <<Src[k], Dst[k]>>]

\* The edges an adjacency list describes, by position.
AdjListEdges(rep) ==
  LET indices == ColumnValues(heap, rep.indices)
      sources == offsets_to_indices(ColumnValues(heap, rep.offsets),
                                    rep.offsets.size - 1, rep.indices.size)
  IN [k \in 1 .. Len(indices) |-> <<sources[k], indices[k]>>]

\* One round of the rank propagation stated on the edges themselves.
EdgeRound(m, E, pr) ==
  LET out(u) == Cardinality({k \in DOMAIN E : E[k][1] = u})
      leaves == {u \in 0 .. m - 1 : out(u) = 0}
      leaf_share == SumWeights(leaves, [u \in leaves |-> pr[u + 1] \div m])
  IN [i \in 1 .. m |->
        LET incoming == {k \in DOMAIN E : E[k][2] = i - 1}
        IN leaf_share
           + SumWeights(incoming,
                        [k \in incoming |-> pr[E[k][1] + 1] \div out(E[k][1])])]

RECURSIVE EdgeRounds(_, _, _, _)
EdgeRounds(m, E, pr, rounds) ==
  IF rounds = 0 THEN pr ELSE EdgeRounds(m, E, EdgeRound(m, E, pr), rounds - 1)

\* The ranks of the graph the caller handed over.
GraphRanks ==
  LET E == IF ~IsNull(edgeList) THEN EdgeListEdges ELSE AdjListEdges(adjList)
      m == CallerVertices
  IN EdgeRounds(m, E, [i \in 1 .. m |-> RankScale], PagerankRounds)

Supported32(rep) ==
  IsNull(rep)
  \/ /\ (IF rep = edgeList THEN rep.src_indices.dtype ELSE rep.offsets.dtype) = "GDF_INT32"
     /\ IsNullCol(rep.edge_data) \/ rep.edge_data.dtype \in {"GDF_FLOAT32", "GDF_FLOAT64"}

\* gdf_pagerank returned from a call with a floating-point column on a graph
\* of 32-bit ids.
PagerankCalled ==
  /\ last_call = "gdf_pagerank"
  /\ col_pagerank.dtype \in {"GDF_FLOAT32", "GDF_FLOAT64"}
  /\ Supported32(edgeList) /\ Supported32(adjList)

\* C23: gdf_pagerank returns success with the ranks of the graph whichever
\* representations the graph holds when it is called (an edge list only, an
\* edge list with a transposed adjacency list, an adjacency list only), and
\* the invalid-call error when it holds neither an adjacency list nor an
\* edge list.
C23_SameRanksAnyRepresentation ==
  /\ (PagerankCalled /\ (~IsNull(edgeList) \/ ~IsNull(adjList))) =>
        /\ gdf_error = "GDF_SUCCESS"
        /\ col_pagerank.data = GraphRanks
  /\ (last_call = "gdf_pagerank" /\ IsNull(edgeList) /\ IsNull(adjList)) =>
        gdf_error = "GDF_INVALID_API_CALL"

\* The same for the graphs that hold an edge list when gdf_pagerank is
\* called, with or without the transposed adjacency list.
C23_EdgeListRanks ==
  /\ (PagerankCalled /\ ~IsNull(edgeList)) =>
        /\ gdf_error = "GDF_SUCCESS"
        /\ col_pagerank.data = GraphRanks
  /\ (last_call = "gdf_pagerank" /\ IsNull(edgeList) /\ IsNull(adjList)) =>
        gdf_error = "GDF_INVALID_API_CALL"

\* gdf_pagerank was called on a graph that holds an adjacency list only.
C23_WitnessAdjListOnly ==
  /\ PagerankCalled /\ IsNull(edgeList) /\ ~IsNull(adjList)
  /\ gdf_error = "GDF_VALIDITY_UNSUPPORTED"

\* gdf_pagerank returned ranks that differ between the vertices.
C23_WitnessRanks ==
  /\ PagerankCalled /\ ~IsNull(edgeList)
  /\ Len(col_pagerank.data) = 3
  /\ col_pagerank.data[1] # col_pagerank.data[2]
  /\ col_pagerank.data[2] # col_pagerank.data[3]

\* cugraph::degree_offsets: degree[i] += offsets[i + 1] - offsets[i]
degree_offsets(n, col, data) ==
  [i \in DOMAIN data |-> IF i <= n THEN data[i] + col[i + 1] - col[i] ELSE data[i]]

\* cugraph::degree_coo: atomicAdd(&degree[col[i]], 1) for every i < e
degree_coo(e, col, data) ==
  [i \in DOMAIN data |-> data[i] + Cardinality({p \in 1 .. e : col[p] = i - 1})]

\* gdf_degree_impl (cugraph.cu 347-377).  The launch dimensions divide by
\* nthreads.x = min(count, CUDA_MAX_KERNEL_THREADS), count being n or e: for
\* count = 0 this is an integer division by zero, which either ends the
\* process or gives some number of blocks for a launch of zero threads,
\* which does nothing.  The division precedes the switch on the dtype.
gdf_degree_impl(h, n, e, col_ptr, data, by_offsets, division) ==
  LET count == IF by_offsets THEN n ELSE e
  IN IF count = 0
     THEN [err |-> IF division = "trap" THEN "DIVISION_BY_ZERO" ELSE "GDF_SUCCESS",
           data |-> data]
     ELSE IF col_ptr.dtype # "GDF_INT32"
     THEN [err |-> "GDF_UNSUPPORTED_DTYPE", data |-> data]
     ELSE [err |-> "GDF_SUCCESS",
           data |-> IF by_offsets THEN degree_offsets(n, ColumnValues(h, col_ptr), data)
                    ELSE degree_coo(e, ColumnValues(h, col_ptr), data)]

\* The body of gdf_degree from line 386 on: what the call returns and what
\* the degree column holds.  The outcome of gdf_degree_impl is not looked at.
Degree(h, al, tr, x, zeroed, division) ==
  LET rep == IF ~IsNull(al) THEN al ELSE tr
      n == rep.offsets.size - 1
      e == rep.indices.size
      out == IF x # 1
             THEN (IF ~IsNull(al)
                   THEN gdf_degree_impl(h, n, e, al.offsets, zeroed, TRUE, division)
                   ELSE gdf_degree_impl(h, n, e, tr.indices, zeroed, FALSE, division))
             ELSE [err |-> "GDF_SUCCESS", data |-> zeroed]
      in == IF x # 2 /\ out.err # "DIVISION_BY_ZERO"
            THEN (IF ~IsNull(al)
                  THEN gdf_degree_impl(h, n, e, al.indices, out.data, FALSE, division)
                  ELSE gdf_degree_impl(h, n, e, tr.offsets, out.data, TRUE, division))
            ELSE out
  IN [err |-> IF in.err = "DIVISION_BY_ZERO" THEN in.err ELSE "GDF_SUCCESS",
      data |-> in.data]

\* gdf_degree (cugraph.cu 380-413) on a zero-initialised column with one
\* element per vertex
gdf_degree ==
  /\ ~ProcessEnded
  /\ UNCHANGED outside_algorithms
  /\ UNCHANGED <<heap, edgeList, adjList, transposedAdjList, col_pagerank>>
  /\ \E x \in {0, 1, 2}, division \in {"trap", "zero"} :
       IF IsNull(adjList) /\ IsNull(transposedAdjList)
       THEN /\ Return("gdf_degree", "GDF_INVALID_API_CALL")
            /\ degree' = [x |-> x, data |-> <<>>]
       ELSE LET rep == IF ~IsNull(adjList) THEN adjList ELSE transposedAdjList
                zeroed == [i \in 1 .. rep.offsets.size - 1 |-> 0]
                r == Degree(heap, adjList, transposedAdjList, x, zeroed, division)
            IN /\ Return("gdf_degree", r.err)
               /\ degree' = [x |-> x, data |-> r.data]

GraphDegreeNext ==
  \/ gdf_edge_list_view
  \/ gdf_adj_list_view
  \/ gdf_add_adj_list
  \/ gdf_add_transposed_adj_list
  \/ gdf_degree

(***************************************************************************)
(* Properties of the representations taken together.                       *)
(***************************************************************************)
\* How often each element occurs in a sequence.
CountsOf(seq) ==
  [x \in Range(seq) |-> Cardinality({k \in DOMAIN seq : seq[k] = x})]

\* Every column of the representation points to a buffer that is allocated.
ColumnsLive(rep) == \A b \in BuffersOf(rep) : heap[b].live

\* The weight at position k, 0 standing for a list without weights.
WeightAt(rep, k) ==
  IF IsNullCol(rep.edge_data) THEN 0 ELSE ColumnValues(heap, rep.edge_data)[k]

\* The <<source, destination, weight>> triples a representation describes.
EdgeListTriples ==
  [k \in 1 .. Len(Src) |-> <<Src[k], Dst[k], WeightAt(edgeList, k)>>]
AdjListTriples(rep) ==
  LET E == AdjListEdges(rep)
  IN [k \in DOMAIN E |-> <<E[k][1], E[k][2], WeightAt(rep, k)>>]
TransposedTriples(rep) ==
  LET E == AdjListEdges(rep)
  IN [k \in DOMAIN E |-> <<E[k][2], E[k][1], WeightAt(rep, k)>>]

\* The multisets of edges of the attached representations.
AttachedMultisets ==
  (IF IsNull(edgeList) THEN {} ELSE {CountsOf(EdgeListTriples)})
  \cup (IF IsNull(adjList) THEN {} ELSE {CountsOf(AdjListTriples(adjList))})
  \cup (IF IsNull(transposedAdjList) THEN {}
        ELSE {CountsOf(TransposedTriples(transposedAdjList))})

\* C25: after any sequence of view, add and delete calls on one graph
\* object, every attached representation describes the same multiset of
\* directed, weighted edges, the transposed list with the endpoints swapped.
C25_SameEdgeMultiset ==
  /\ ColumnsLive(edgeList) /\ ColumnsLive(adjList) /\ ColumnsLive(transposedAdjList)
  /\ Cardinality(AttachedMultisets) <= 1

\* The same as long as every column points to allocated memory.
C25_SameEdgesWhileLive ==
  (ColumnsLive(edgeList) /\ ColumnsLive(adjList) /\ ColumnsLive(transposedAdjList))
    => Cardinality(AttachedMultisets) <= 1

\* Three representations of a weighted graph are attached, the edge list
\* derived from an adjacency list.
C25_WitnessThree ==
  /\ ~IsNull(edgeList) /\ ~IsNull(adjList) /\ ~IsNull(transposedAdjList)
  /\ ~IsNullCol(edgeList.edge_data)
  /\ edgeList.ownership = 2
  /\ ColumnsLive(edgeList) /\ ColumnsLive(adjList) /\ ColumnsLive(transposedAdjList)

\* An attached edge list reads a column that a delete freed.
C25_WitnessFreed ==
  /\ ~IsNull(edgeList) /\ ~ColumnsLive(edgeList)

\* The add function just called found its representation attached.
AddedExisting ==
  \/ last_call' = "gdf_add_adj_list" /\ ~IsNull(adjList)
  \/ last_call' = "gdf_add_edge_list" /\ ~IsNull(edgeList)
  \/ last_call' = "gdf_add_transposed_adj_list" /\ ~IsNull(transposedAdjList)

\* C26: gdf_add_adj_list, gdf_add_edge_list and gdf_add_transposed_adj_list
\* called on a graph that holds the requested representation return success
\* and leave every representation, and every buffer, as it was.
C26_AddsIdempotent ==
  [][AddedExisting
     => (gdf_error' = "GDF_SUCCESS"
         /\ UNCHANGED <<heap, edgeList, adjList, transposedAdjList>>)]_vars

\* The same for the calls made while the graph holds an edge list.
C26_AddsIdempotentWithEdgeList ==
  [][(AddedExisting /\ ~IsNull(edgeList))
     => (gdf_error' = "GDF_SUCCESS"
         /\ UNCHANGED <<heap, edgeList, adjList, transposedAdjList>>)]_vars

\* gdf_add_transposed_adj_list returned from a call on a graph that held a
\* transposed adjacency list and no edge list.
C26_WitnessNoEdgeList ==
  /\ last_call = "gdf_add_transposed_adj_list"
  /\ ~IsNull(transposedAdjList)
  /\ gdf_error = "NULL_DEREFERENCE" \/ (~IsNull(edgeList) /\ edgeList.ownership = 2)

(***************************************************************************)
(* Properties of gdf_degree.                                               *)
(***************************************************************************)
\* The edges of the graph: those of the edge list when there is one, else
\* those of the adjacency list the caller handed over.
GraphEdges == IF ~IsNull(edgeList) THEN EdgeListEdges ELSE AdjListEdges(adjList)

OutEdges(v) == Cardinality({k \in DOMAIN GraphEdges : GraphEdges[k][1] = v})
InEdges(v) == Cardinality({k \in DOMAIN GraphEdges : GraphEdges[k][2] = v})

\* What x asks for.
DegreeAsked(x, v) ==
  IF x = 2 THEN OutEdges(v)
  ELSE IF x = 1 THEN InEdges(v)
  ELSE OutEdges(v) + InEdges(v)

DegreeCalled == last_call = "gdf_degree"

\* The list gdf_degree computes from.
DegreeSource == IF ~IsNull(adjList) THEN adjList ELSE transposedAdjList

\* C27: gdf_degree returns the invalid-call error when the graph has neither
\* an adjacency list nor a transposed adjacency list; otherwise it returns
\* success and the zero-initialised column holds, for every vertex, the
\* number of out-edges (x = 2), of in-edges (x = 1) or their sum (x = 0),
\* whether it was computed from the adjacency list or from the transposed
\* one.
C27_DegreeByDirection ==
  DegreeCalled =>
    IF IsNull(adjList) /\ IsNull(transposedAdjList)
    THEN gdf_error = "GDF_INVALID_API_CALL"
    ELSE /\ gdf_error = "GDF_SUCCESS"
         /\ degree.data = [i \in 1 .. DegreeSource.offsets.size - 1 |->
                             DegreeAsked(degree.x, i - 1)]

\* The same for graphs of 32-bit ids with at least one edge.
C27_DegreeOfNonEmpty32 ==
  (DegreeCalled /\ ~(IsNull(adjList) /\ IsNull(transposedAdjList))
   /\ DegreeSource.offsets.dtype = "GDF_INT32"
   /\ DegreeSource.indices.dtype = "GDF_INT32"
   /\ DegreeSource.indices.size > 0) =>
    /\ gdf_error = "GDF_SUCCESS"
    /\ degree.data = [i \in 1 .. DegreeSource.offsets.size - 1 |->
                        DegreeAsked(degree.x, i - 1)]

\* The error half.
C27_NoListIsInvalidCall ==
  (DegreeCalled /\ IsNull(adjList) /\ IsNull(transposedAdjList)) =>
    gdf_error = "GDF_INVALID_API_CALL" /\ degree.data = <<>>

\* Degrees were computed from the transposed adjacency list of a graph on
\* which in- and out-degrees differ.
C27_WitnessFromTransposed ==
  /\ DegreeCalled /\ IsNull(adjList) /\ ~IsNull(transposedAdjList)
  /\ gdf_error = "GDF_SUCCESS"
  /\ degree.x = 2
  /\ Len(degree.data) = 3
  /\ degree.data = [i \in 1 .. 3 |-> OutEdges(i - 1)]
  /\ degree.data # [i \in 1 .. 3 |-> InEdges(i - 1)]

\* gdf_degree divided by zero on a graph without edges.
C27_WitnessDivision ==
  /\ DegreeCalled /\ gdf_error = "DIVISION_BY_ZERO"

\* gdf_degree returned success and no degrees for a graph of 64-bit ids.
C27_WitnessWide ==
  /\ DegreeCalled /\ gdf_error = "GDF_SUCCESS"
  /\ ~IsNull(adjList) /\ adjList.offsets.dtype = "GDF_INT64"
  /\ degree.data = <<0, 0>>

(***************************************************************************)
(* Part 9: extract_subgraph_vertex and extract_subgraph_by_vertices        *)
(* (src/unnamed/part_004).  Device vectors are sequences; an access        *)
(* outside a vector is recorded in sg_access.  The position                *)
(* "out_of_bounds" stands for a call about which nothing more is known: a  *)
(* kernel ended for an illegal address, or one that went on with values    *)
(* read from memory that is no part of the vector.  A write beyond the new *)
(* vectors may also land in memory of no vector and leave the call         *)
(* running.  The edges of the two edge loops are handled in any order, as  *)
(* the threads of thrust::for_each are.                                    *)
(***************************************************************************)
SubgraphVertices == 3
MaxSubgraphEdges == 2
MaxListed == 3

\* The vertex ids the caller may list: two of them are no vertex id of the
\* graph.
ListedIds == -1 .. SubgraphVertices

\* An element of new_src_v / new_dst_v / new_weight_v that was not written.
Unwritten == -2

GraphCOOs ==
  UNION {{[src_indices |-> s, dst_indices |-> d,
           edge_data |-> IF w THEN [e \in 1 .. n |-> 20 + e] ELSE <<>>,
           has_weight |-> w,
           number_of_vertices |-> SubgraphVertices,
           number_of_edges |-> n] :
            s \in [1 .. n -> 0 .. SubgraphVertices - 1],
            d \in [1 .. n -> 0 .. SubgraphVertices - 1],
            w \in BOOLEAN} : n \in 0 .. MaxSubgraphEdges}

\* The GraphCOO the caller passes as `result`, before the call.
CallerResult ==
  [src_indices |-> <<>>, dst_indices |-> <<>>, edge_data |-> <<>>,
   has_weight |-> FALSE, number_of_vertices |-> 0, number_of_edges |-> 0]

NoAccess == [array |-> "none", index |-> 0, length |-> 0]

SubgraphInit ==
  /\ sg_graph \in GraphCOOs
  /\ sg_vertices \in UNION {[1 .. n -> ListedIds] : n \in 0 .. MaxListed}
  /\ vertex_used_v = <<>>
  /\ error_count_v = 0
  /\ sg_count = 0
  /\ new_src_v = <<>>
  /\ new_dst_v = <<>>
  /\ new_weight_v = <<>>
  /\ sg_pending = {}
  /\ sg_positions = <<>>
  /\ sg_access = NoAccess
  /\ sg_result = CallerResult
  /\ sg_pc = "called"

SubgraphIdle ==
  /\ sg_graph = CallerResult
  /\ sg_vertices = <<>>
  /\ vertex_used_v = <<>>
  /\ error_count_v = 0
  /\ sg_count = 0
  /\ new_src_v = <<>>
  /\ new_dst_v = <<>>
  /\ new_weight_v = <<>>
  /\ sg_pending = {}
  /\ sg_positions = <<>>
  /\ sg_access = NoAccess
  /\ sg_result = CallerResult
  /\ sg_pc = "idle"

num_vertices == Len(sg_vertices)

\* (v >= 0) && (v < graph_num_verts)
IsGraphVertex(v) == (v >= 0) /\ (v < sg_graph.number_of_vertices)

\* The listed ids that pass the test of line 46 and lie beyond the end of
\* vertex_used_v, which has num_vertices elements (line 35).
MarkedOutside == {idx \in 1 .. num_vertices :
                    IsGraphVertex(sg_vertices[idx]) /\ sg_vertices[idx] >= num_vertices}

\* The contents vertex_used_v may have after the first for_each: the
\* element of a listed vertex holds the index of one of its occurrences in
\* `vertices` (the threads of the occurrences race), every other element the
\* initial num_vertices.
MarkedVectors ==
  {used \in [1 .. num_vertices -> 0 .. num_vertices] :
     \A v \in 0 .. num_vertices - 1 :
       LET occurrences == {idx \in 1 .. num_vertices : sg_vertices[idx] = v}
       IN IF occurrences = {} THEN used[v + 1] = num_vertices
          ELSE used[v + 1] + 1 \in occurrences}

\* extract_subgraph_vertex up to CUGRAPH_EXPECTS of line 52: the two device
\* vectors, the for_each over `vertices` and the test of the error count.
mark_vertices ==
  /\ sg_pc = "called"
  /\ UNCHANGED outside_subgraph
  /\ UNCHANGED <<sg_graph, sg_vertices, sg_count, new_src_v, new_dst_v, new_weight_v,
                 sg_pending, sg_positions, sg_result>>
  /\ LET errors == Cardinality({idx \in 1 .. num_vertices :
                                  ~IsGraphVertex(sg_vertices[idx])})
     IN IF MarkedOutside # {}
        THEN /\ \E idx \in MarkedOutside :
                  sg_access' = [array |-> "vertex_used", index |-> sg_vertices[idx],
                                length |-> num_vertices]
             /\ sg_pc' = "out_of_bounds"
             /\ UNCHANGED <<vertex_used_v, error_count_v>>
        ELSE /\ vertex_used_v' \in MarkedVectors
             /\ error_count_v' = errors
             /\ sg_pc' = IF errors > 0 THEN "marked" ELSE "input_error"
             /\ UNCHANGED sg_access

\* The test of the count_if and of the second for_each on edge e:
\* d_vertex_used[s] < num_vertices && d_vertex_used[d] < num_vertices, the
\* second operand read only when the first holds.
EdgeTest(e) ==
  LET s == sg_graph.src_indices[e]
      d == sg_graph.dst_indices[e]
  IN IF s >= Len(vertex_used_v)
     THEN [out_of_bounds |-> TRUE, index |-> s, retained |-> FALSE]
     ELSE IF ~(vertex_used_v[s + 1] < num_vertices)
     THEN [out_of_bounds |-> FALSE, index |-> s, retained |-> FALSE]
     ELSE IF d >= Len(vertex_used_v)
     THEN [out_of_bounds |-> TRUE, index |-> d, retained |-> FALSE]
     ELSE [out_of_bounds |-> FALSE, index |-> d,
           retained |-> vertex_used_v[d + 1] < num_vertices]

EdgePositions == 1 .. sg_graph.number_of_edges

\* thrust::count_if (lines 59-67) and the allocation of the new vectors
\* (69-81); with count = 0 the function returns.
count_edges ==
  /\ sg_pc = "marked"
  /\ UNCHANGED outside_subgraph
  /\ UNCHANGED <<sg_graph, sg_vertices, vertex_used_v, error_count_v, sg_positions,
                 sg_result>>
  /\ LET outside == {e \in EdgePositions : EdgeTest(e).out_of_bounds}
         count == Cardinality({e \in EdgePositions : EdgeTest(e).retained})
     IN IF outside # {}
        THEN /\ \E e \in outside :
                  sg_access' = [array |-> "vertex_used", index |-> EdgeTest(e).index,
                                length |-> Len(vertex_used_v)]
             /\ sg_pc' = "out_of_bounds"
             /\ UNCHANGED <<sg_count, new_src_v, new_dst_v, new_weight_v, sg_pending>>
        ELSE /\ sg_count' = count
             /\ new_src_v' = [i \in 1 .. count |-> Unwritten]
             /\ new_dst_v' = [i \in 1 .. count |-> Unwritten]
             /\ new_weight_v' = IF sg_graph.has_weight
                                THEN [i \in 1 .. count |-> Unwritten] ELSE <<>>
             /\ sg_pending' = IF count > 0 THEN EdgePositions ELSE {}
             /\ sg_pc' = IF count > 0 THEN "copying" ELSE "returned"
             /\ UNCHANGED sg_access

\* One thread of the second for_each (lines 84-103): a retained edge is
\* written at the position the atomicAdd on the error counter hands out.
copy_edge(e) ==
  /\ sg_pc = "copying"
  /\ e \in sg_pending
  /\ UNCHANGED outside_subgraph
  /\ UNCHANGED <<sg_graph, sg_vertices, vertex_used_v, sg_count, sg_result>>
  /\ sg_pending' = sg_pending \ {e}
  /\ IF ~EdgeTest(e).retained
     THEN UNCHANGED <<error_count_v, new_src_v, new_dst_v, new_weight_v, sg_positions,
                      sg_access, sg_pc>>
     ELSE LET pos == error_count_v
          IN /\ error_count_v' = error_count_v + 1
             /\ sg_positions' = Append(sg_positions, pos)
             /\ IF pos >= Len(new_src_v)
                THEN /\ sg_access' = [array |-> "new_src", index |-> pos,
                                      length |-> Len(new_src_v)]
                     /\ sg_pc' \in {"out_of_bounds", "copying"}
                     /\ UNCHANGED <<new_src_v, new_dst_v, new_weight_v>>
                ELSE /\ new_src_v' = [new_src_v EXCEPT ![pos + 1] = sg_graph.src_indices[e]]
                     /\ new_dst_v' = [new_dst_v EXCEPT ![pos + 1] = sg_graph.dst_indices[e]]
                     /\ new_weight_v' =
                          IF sg_graph.has_weight
                          THEN [new_weight_v EXCEPT ![pos + 1] = sg_graph.edge_data[e]]
                          ELSE new_weight_v
                     /\ UNCHANGED <<sg_access, sg_pc>>

\* The end of extract_subgraph_by_vertices (lines 105-113): the new vectors
\* go out of scope, `result` is not assigned.
return_subgraph ==
  /\ sg_pc = "copying"
  /\ sg_pending = {}
  /\ UNCHANGED outside_subgraph
  /\ sg_pc' = "returned"
  /\ UNCHANGED <<sg_graph, sg_vertices, vertex_used_v, error_count_v, sg_count,
                 new_src_v, new_dst_v, new_weight_v, sg_pending, sg_positions,
                 sg_access, sg_result>>

SubgraphNext ==
  \/ mark_vertices
  \/ count_edges
  \/ \E e \in EdgePositions : copy_edge(e)
  \/ return_subgraph

(***************************************************************************)
(* Properties of extract_subgraph_vertex.                                  *)
(***************************************************************************)
\* Some entry of `vertices` is no vertex id of the graph.
SomeOutOfRange ==
  \E idx \in 1 .. num_vertices :
    sg_vertices[idx] < 0 \/ sg_vertices[idx] >= sg_graph.number_of_vertices

\* The call has ended with a defined outcome.
SubgraphEnded == sg_pc \in {"input_error", "returned"}

\* C28: extract_subgraph_vertex fails with the 'vertex id out of range'
\* input error exactly when some entry of `vertices` lies outside
\* [0, number_of_vertices); a call whose ids are all in range does not fail.
C28_ErrorIffOutOfRange ==
  SubgraphEnded => ((sg_pc = "input_error") <=> SomeOutOfRange)

\* What the test of line 52 does: the call fails exactly when no entry lies
\* outside the range.
C28_ErrorIffAllInRange ==
  SubgraphEnded => ((sg_pc = "input_error") <=> ~SomeOutOfRange)

\* The call failed on a list of two distinct vertices of the graph.
C28_WitnessInRangeFails ==
  /\ sg_pc = "input_error"
  /\ sg_vertices = <<0, 1>>
  /\ sg_graph.number_of_edges = 2

\* The call went on with an id beyond the graph's vertices in the list.
C28_WitnessOutOfRangePasses ==
  /\ sg_pc = "returned"
  /\ SomeOutOfRange

\* The edges of the input graph whose endpoints both occur in `vertices`.
Qualifying ==
  {e \in EdgePositions :
     /\ sg_graph.src_indices[e] \in Range(sg_vertices)
     /\ sg_graph.dst_indices[e] \in Range(sg_vertices)}

EdgeTriples(g) ==
  [e \in 1 .. g.number_of_edges |->
     <<g.src_indices[e], g.dst_indices[e],
       IF g.has_weight THEN g.edge_data[e] ELSE 0>>]

QualifyingTriples ==
  LET all == EdgeTriples(sg_graph)
  IN [x \in {all[e] : e \in Qualifying} |->
        Cardinality({e \in Qualifying : all[e] = x})]

\* The call is over, with or without a defined outcome.
SubgraphOver == sg_pc \in {"input_error", "returned", "out_of_bounds"}

\* C29: for every graph and every list of vertices of the graph, the call
\* returns and the result graph holds exactly the edges whose endpoints both
\* occur in the list, each as often as in the input and with its weight; it
\* is the empty graph when no edge qualifies.
C29_ResultIsInducedSubgraph ==
  (SubgraphOver /\ ~SomeOutOfRange) =>
    /\ sg_pc = "returned"
    /\ CountsOf(EdgeTriples(sg_result)) = QualifyingTriples

\* The count of retained edges is the number of qualifying edges whenever
\* the count_if stayed inside vertex_used_v.
C29_CountIsQualifying ==
  sg_pc \in {"copying", "returned"} => sg_count = Cardinality(Qualifying)

\* The call ended on a list of graph vertices with a qualifying edge.
C29_WitnessQualifying ==
  /\ SubgraphOver /\ ~SomeOutOfRange
  /\ Qualifying # {}
  /\ sg_graph.has_weight

\* The call returned after the second for_each, and `result` is as the
\* caller passed it.
C29_WitnessReturned ==
  /\ sg_pc = "returned"
  /\ sg_count > 0
  /\ sg_result = CallerResult

\* C30: every index used on vertex_used_v is smaller than its length, and
\* the retained edges are written to pairwise distinct positions that cover
\* exactly [0, count).
C30_AccessesInBounds ==
  /\ sg_access = NoAccess
  /\ (sg_pc = "returned" /\ sg_count > 0) =>
       /\ Len(sg_positions) = sg_count
       /\ Range(sg_positions) = 0 .. sg_count - 1

\* The positions handed out by the atomicAdd are pairwise distinct.
C30_PositionsDistinct ==
  Cardinality(Range(sg_positions)) = Len(sg_positions)

\* A vertex id of the graph was used as an index beyond vertex_used_v.
C30_WitnessVertexUsed ==
  /\ sg_pc = "out_of_bounds"
  /\ sg_access.array = "vertex_used"
  /\ sg_access.index >= sg_access.length
  /\ sg_access.index < sg_graph.number_of_vertices

\* A retained edge was written beyond the new vectors.
C30_WitnessPosition ==
  /\ sg_pc = "returned"
  /\ sg_access.array = "new_src"
  /\ sg_access.index = sg_count

\* mg::bfs runs; no call is made on the graph object.
InitBfs == BfsInit /\ GraphIdle /\ RenumberIdle /\ PagerankIdle /\ ThreadsIdle
  /\ WorkersIdle /\ CoarsenIdle /\ AlgorithmsIdle /\ SubgraphIdle
SpecBfs == InitBfs /\ [][BfsNext]_vars

\* The same with every rank scheduled fairly.
SpecBfsFair == InitBfs /\ [][BfsNext]_vars /\ FairRanks

\* mg::bfs is called by a single device.
InitBfsOneRank == BfsOneRankInit /\ GraphIdle /\ RenumberIdle /\ PagerankIdle
  /\ ThreadsIdle /\ WorkersIdle /\ CoarsenIdle /\ AlgorithmsIdle /\ SubgraphIdle
SpecBfsOneRank == InitBfsOneRank /\ [][BfsOneRankNext]_vars

\* Calls on one gdf_graph; no traversal runs.
InitGraph == GraphInit /\ BfsIdle /\ RenumberIdle /\ PagerankIdle /\ ThreadsIdle
  /\ WorkersIdle /\ CoarsenIdle /\ AlgorithmsIdle /\ SubgraphIdle
SpecGraph == InitGraph /\ [][GraphNext]_vars

\* One call of gdf_renumber_vertices on columns of the caller.
InitRenumber == RenumberInit /\ BfsIdle /\ GraphIdle /\ PagerankIdle /\ ThreadsIdle
  /\ WorkersIdle /\ CoarsenIdle /\ AlgorithmsIdle /\ SubgraphIdle
SpecRenumber == InitRenumber /\ [][RenumberNext]_vars

\* Views, adds and deletes on one gdf_graph.
SpecGraphLifecycle == InitGraph /\ [][GraphLifecycleNext]_vars

\* Calls on one gdf_graph through the entry points of part_005.
SpecGraphPart005 == InitGraph /\ [][GraphNextPart005]_vars

\* One call of gdf_pagerank_impl.
InitPagerank == PagerankInit /\ BfsIdle /\ GraphIdle /\ RenumberIdle /\ ThreadsIdle
  /\ WorkersIdle /\ CoarsenIdle /\ AlgorithmsIdle /\ SubgraphIdle
SpecPagerank == InitPagerank /\ [][PagerankNext]_vars

\* Two threads, each calling one algorithm on the same gdf_graph.
InitThreads == ThreadsInit /\ BfsIdle /\ RenumberIdle /\ PagerankIdle /\ WorkersIdle /\ CoarsenIdle /\ AlgorithmsIdle /\ SubgraphIdle
SpecThreads == InitThreads /\ [][ThreadsNext]_vars

\* The buckets of one graph view are filled and workers are called on them.
InitWorkers == WorkersInit /\ BfsIdle /\ GraphIdle /\ RenumberIdle /\ PagerankIdle
  /\ ThreadsIdle /\ CoarsenIdle /\ AlgorithmsIdle /\ SubgraphIdle
SpecWorkers == InitWorkers /\ [][WorkersNext]_vars

\* The coarsening test runs on one graph and one labelling.
InitCoarsen == CoarsenInit /\ BfsIdle /\ GraphIdle /\ RenumberIdle /\ PagerankIdle
  /\ ThreadsIdle /\ WorkersIdle /\ AlgorithmsIdle /\ SubgraphIdle
SpecCoarsen == InitCoarsen /\ [][CoarsenNext]_vars

\* The algorithm entry points start on the empty graph of InitGraph.
SpecGraphPagerank == InitGraph /\ [][GraphPagerankNext]_vars
SpecGraphDegree == InitGraph /\ [][GraphDegreeNext]_vars

\* extract_subgraph_vertex is called on one graph with one list of vertices.
InitSubgraph == SubgraphInit /\ BfsIdle /\ GraphIdle /\ RenumberIdle /\ PagerankIdle
  /\ ThreadsIdle /\ WorkersIdle /\ CoarsenIdle /\ AlgorithmsIdle
SpecSubgraph == InitSubgraph /\ [][SubgraphNext]_vars
====
